---- MODULE Spec2Model ----
(***************************************************************************)
(* Document chat: the server-sent-event question path (streamQuestion and  *)
(* the POST /api/chat/stream handler), the polling path chat.askQuestion,  *)
(* chat.syncFileToOpenAI, the tRPC procedure guard, the files and chat     *)
(* routers with chat.search, the useHotkeys hook and the chat page with    *)
(* its SSE reader.                                                         *)
(* Every await of the handlers is one step, so that overlapping requests   *)
(* interleave exactly where the event loop lets them.                      *)
(***************************************************************************)
EXTENDS Integers, Sequences, FiniteSets, TLC

\* ------------------------------------------------------------------ bounds
NumCalls == 2       \* overlapping requests
MaxFaults == 1      \* injected failures (throws, failed downloads, failed runs)
MaxDeltas == 2      \* content blocks the provider streams, over all runs
LongLen == 31       \* length of the long question
MaxHotkeys == 2     \* hotkeys in the array a component passes to useHotkeys
MaxStreams == 3     \* questions the chat page submits
MaxEvents == 1      \* status and delta events of a response the page reads
LiveStreams == 2    \* questions the page submits where its termination is checked

\* ------------------------------------------------------- program constants
StreamTitleMax == 30
AskTitleMax == 50
QuestionMax == 2000

Procs == 1..NumCalls
NoSession == "nosession"
Users == {"u1", "u2"}
ShortQ == <<"h", "i">>
LongQ == [i \in 1..LongLen |-> "b"]
\* The request numbered p asks Question(p); the provider's k-th content block
\* carries BlockText(k), or no text at all.
Question(p) == IF p % 2 = 1 THEN LongQ ELSE ShortQ
BlockText(k) == IF k % 2 = 1 THEN <<"x">> ELSE <<"y">>

VARIABLES
  chat,               \* table chat: id -> row
  file,               \* table file: id -> row
  chatMessage,        \* table chat_message, in insertion order
  thread,             \* provider: thread id -> its messages
  uploads,            \* provider: the files openai.files.create stored; the n-th has id n
  runs,               \* provider: the runs started
  cachedAssistantId,  \* lib/openai module state (0: null)
  proc,               \* each request: its input, position and locals
  sse,                \* each request: the events written to its response
  steps,              \* each request: the operations it completed, in order
  titleWrites,        \* chat id -> the requests that wrote its title
  faults,             \* failures injected so far
  streamed,           \* content blocks streamed so far
  client,             \* the chat page and the callbacks of its requests
  hook,               \* a component that calls useHotkeys, and document's listeners
  storage             \* the storage bucket: the paths that hold an object

vars == <<chat, file, chatMessage, thread, uploads, runs, cachedAssistantId,
          proc, sse, steps, titleWrites, faults, streamed, client, hook, storage>>

\* ------------------------------------------------------------ the database
\* chat.title is nullable text; the code only ever tests it with !title, which
\* null and "" both satisfy, so <<>> stands for both.  file.openaiFileId is
\* nullable text tested with !openaiFileId; 0 stands for null.
InitChat == [c \in {"c1"} |->
               [userId |-> "u1", fileId |-> "f1", openaiThreadId |-> "t1", title |-> <<>>]]
InitFile == [f \in {"f1"} |-> [userId |-> "u1", openaiFileId |-> 0, name |-> "report.pdf"]]

IdleProc == [kind |-> "none", pc |-> "idle", status |-> 0,
             session |-> NoSession, chatId |-> "", fileId |-> "", question |-> <<>>,
             userId |-> "", answer |-> <<>>, ran |-> FALSE, message |-> "",
             fileRecord |-> [openaiFileId |-> 0], caught |-> "",
             chatRecord |-> [fileId |-> "", openaiThreadId |-> "", title |-> <<>>],
             openaiFileId |-> 0, userMessageId |-> 0, assistantMessageId |-> 0,
             isFirstChatMessage |-> FALSE, fullContent |-> <<>>,
             result |-> "none", name |-> "", storageError |-> FALSE,
             output |-> [name |-> "", title |-> <<>>, messages |-> {}]]

\* The locals of one streamQuestion callback of ChatPage; read counts the units
\* of the response body the reader has returned, lines holds the lines of the
\* chunk in hand while the callback awaits invalidateQueries.
IdleCall == [state |-> "idle", read |-> 0, buffer |-> <<>>, accumulatedContent |-> <<>>,
             receivedDone |-> FALSE, handled |-> <<>>, lines |-> <<>>]
\* ChatPage's state, the chat.get query cache, abortControllerRef (the request
\* whose controller it holds, 0: null), the requests aborted, and the callback
\* of each request.  toast and invalidated are what the page's last step
\* called: the toast it raised, and whether it invalidated the chat.get query.
IdleClient == [isStreaming |-> FALSE, streamingContent |-> <<>>,
               statusMessage |-> "", pendingMessage |-> <<>>, toast |-> "",
               input |-> <<>>, cached |-> FALSE, cache |-> <<>>, invalidated |-> FALSE,
               controller |-> 0, aborted |-> {},
               call |-> [p \in Procs |-> IdleCall]]

\* A keydown event: key, the modifier flags and the target element.
NoEvent == [key |-> "", ctrlKey |-> FALSE, metaKey |-> FALSE, shiftKey |-> FALSE,
            target |-> [tagName |-> "", isContentEditable |-> FALSE]]
\* The component is not mounted yet; document has no keydown listener of it.
\* event is the last keydown dispatched since the last render, called the
\* callbacks that keydown called; rerendered and unmounted tell what the
\* component has been through.
NoHook == [mounted |-> FALSE, hotkeys |-> <<>>, listeners |-> <<>>,
           event |-> NoEvent, called |-> <<>>,
           rerendered |-> FALSE, unmounted |-> FALSE]

InitServer ==
  /\ chat = InitChat
  /\ file = InitFile
  /\ chatMessage = <<>>
  /\ thread = [t \in {"t1"} |-> <<>>]
  /\ uploads = <<>>
  /\ runs = {}
  /\ cachedAssistantId = 0
  /\ proc = [p \in Procs |-> IdleProc]
  /\ sse = [p \in Procs |-> <<>>]
  /\ steps = [p \in Procs |-> <<>>]
  /\ titleWrites = [c \in {"c1"} |-> {}]
  /\ faults = 0
  /\ streamed = 0

\* the object of file f1 has been uploaded
Init == InitServer /\ client = IdleClient /\ hook = NoHook /\ storage = {"f1"}

\* ----------------------------------------------------------------- helpers
HasAttachment(m) == m.attachments # <<>>
Seeded(t) == \E i \in DOMAIN thread[t] : HasAttachment(thread[t][i])
MessagesOf(c) == {i \in DOMAIN chatMessage : chatMessage[i].chatId = c}
UploadsOf(f) == {i \in DOMAIN uploads : uploads[i] = f}

StatusEvent(m) == [type |-> "status", data |-> [message |-> m]]
DeltaEvent(t) == [type |-> "delta", data |-> [content |-> t]]
ErrorEvent(m) == [type |-> "error", data |-> [message |-> m]]
DoneEvent(u, a) == [type |-> "done", data |-> [userMessageId |-> u, assistantMessageId |-> a]]

\* stream.writeSSE({event: event.type, data: JSON.stringify(event.data)})
writeSSE(p, ev) == sse' = [sse EXCEPT ![p] = Append(@, ev)]
Completed(p, name) == steps' = [steps EXCEPT ![p] = Append(@, name)]
Goto(p, label) == proc' = [proc EXCEPT ![p].pc = label]

\* error instanceof Error ? error.message : "Unknown error"
CaughtMessage(e) == IF e.isError THEN e.message ELSE "Unknown error"
DbError == [isError |-> TRUE, message |-> "db error"]
ProviderError == [isError |-> TRUE, message |-> "provider error"]

HandlerCatch_NoWrite(p, e) ==
  /\ faults < MaxFaults
  /\ faults' = faults + 1
  /\ proc' = [proc EXCEPT ![p].pc = "closed", ![p].caught = e.message]
  /\ UNCHANGED <<chat, file, chatMessage, thread, uploads, runs, cachedAssistantId,
                 sse, steps, titleWrites, streamed>>

\* An await of streamQuestion rejects: the generator throws into the handler's
\* for await, whose catch writes one error event; the response then ends.
HandlerCatch(p, e) ==
  /\ faults < MaxFaults
  /\ faults' = faults + 1
  /\ writeSSE(p, ErrorEvent(CaughtMessage(e)))
  /\ proc' = [proc EXCEPT ![p].pc = "closed", ![p].caught = e.message]
  /\ UNCHANGED <<chat, file, chatMessage, thread, uploads, runs, cachedAssistantId,
                 steps, titleWrites, streamed>>

\* An insert whose chat (or file) row has been deleted violates the foreign key:
\* the await rejects, whatever else fails or does not.
ForeignKeyError == [isError |-> TRUE, message |-> "violates foreign key constraint"]
ForeignKeyCatch(p) ==
  /\ writeSSE(p, ErrorEvent(CaughtMessage(ForeignKeyError)))
  /\ proc' = [proc EXCEPT ![p].pc = "closed", ![p].caught = ForeignKeyError.message]
  /\ UNCHANGED <<chat, file, chatMessage, thread, uploads, runs, cachedAssistantId,
                 steps, titleWrites, faults, streamed>>

\* Requests are numbered in their order of arrival.
Arrives(p) == proc[p].pc = "idle" /\ \A q \in Procs : q < p => proc[q].pc # "idle"

\* question.length > 30 ? `${question.substring(0, 30)}...` : question
StreamTitle(q) ==
  IF Len(q) > StreamTitleMax THEN SubSeq(q, 1, StreamTitleMax) \o <<".", ".", ".">> ELSE q

\* --------------------------------------------- POST /api/chat/stream handler
\* A missing body field and an empty one are both falsy: "" and <<>> stand for both.
StreamRequestStatus_Or(session, chatId, question) ==
  IF session = NoSession THEN 401
  ELSE IF ~(chatId # "" \/ question # <<>>) THEN 400
  ELSE 200

\* if (!session) 401; if (!(body.chatId && body.question)) 400; else the SSE response
StreamRequestStatus(session, chatId, question) ==
  IF session = NoSession THEN 401
  ELSE IF ~(chatId # "" /\ question # <<>>) THEN 400
  ELSE 200

\* the handler, for a body whose question is one of questions
PostChatStreamWith(p, questions) ==
  /\ Arrives(p)
  /\ \E session \in Users \cup {NoSession}, chatId \in {"", "c1", "c404"},
        question \in questions :
       LET req == [proc[p] EXCEPT !.kind = "stream", !.session = session,
                                  !.chatId = chatId, !.question = question]
           status == StreamRequestStatus(session, chatId, question)
       IN proc' = [proc EXCEPT ![p] =
            IF status # 200 THEN [req EXCEPT !.status = status, !.pc = "closed"]
            ELSE [req EXCEPT !.status = 200, !.pc = "chatLookup", !.userId = session,
                             !.ran = TRUE]]
  /\ UNCHANGED <<chat, file, chatMessage, thread, uploads, runs, cachedAssistantId,
                 sse, steps, titleWrites, faults, streamed>>
  /\ UNCHANGED <<client, hook, storage>>

PostChatStream(p) == PostChatStreamWith(p, {<<>>, Question(p)})

\* ----------------------------------------------------------- streamQuestion
\* fullContent += block.text.value
Accumulate_Prepend(fullContent, text) == text \o fullContent
Accumulate(fullContent, text) == fullContent \o text

\* isFirstChatMessage = (messageCount[0]?.count ?? 0) <= 1
SQ_IsFirstChatMessage_Le2(c) == Cardinality(MessagesOf(c)) <= 2
SQ_IsFirstChatMessage(c) == Cardinality(MessagesOf(c)) <= 1

SQ_chatLookup(p) ==
  /\ proc[p].kind = "stream" /\ proc[p].pc = "chatLookup"
  /\ \/ LET c == proc[p].chatId
            found == c \in DOMAIN chat /\ chat[c].userId = proc[p].userId
        IN /\ IF found
                THEN /\ proc' = [proc EXCEPT ![p].pc = "fileLookup",
                                   ![p].chatRecord = [fileId |-> chat[c].fileId,
                                                      openaiThreadId |-> chat[c].openaiThreadId,
                                                      title |-> chat[c].title]]
                     /\ Completed(p, "chatLookup")
                     /\ UNCHANGED sse
                ELSE /\ writeSSE(p, ErrorEvent("Chat not found"))
                     /\ Goto(p, "closed")
                     /\ UNCHANGED steps
           /\ UNCHANGED <<chat, file, chatMessage, thread, uploads, runs,
                          cachedAssistantId, titleWrites, faults, streamed>>
     \/ HandlerCatch(p, DbError)
  /\ UNCHANGED <<client, hook, storage>>

SQ_fileLookup(p) ==
  /\ proc[p].kind = "stream" /\ proc[p].pc = "fileLookup"
  /\ \/ LET f == proc[p].chatRecord.fileId
        IN /\ IF f \in DOMAIN file
                THEN /\ Completed(p, "fileLookup")
                     /\ IF file[f].openaiFileId = 0
                          THEN /\ writeSSE(p, StatusEvent("Uploading file to AI..."))
                               /\ proc' = [proc EXCEPT ![p].pc = "download",
                                             ![p].fileRecord = [openaiFileId |-> 0],
                                             ![p].openaiFileId = 0]
                          ELSE /\ proc' = [proc EXCEPT ![p].pc = "insertUser",
                                             ![p].fileRecord =
                                                [openaiFileId |-> file[f].openaiFileId],
                                             ![p].openaiFileId = file[f].openaiFileId]
                               /\ UNCHANGED sse
                ELSE /\ writeSSE(p, ErrorEvent("File not found"))
                     /\ Goto(p, "closed")
                     /\ UNCHANGED steps
           /\ UNCHANGED <<chat, file, chatMessage, thread, uploads, runs,
                          cachedAssistantId, titleWrites, faults, streamed>>
     \/ HandlerCatch(p, DbError)
  /\ UNCHANGED <<client, hook, storage>>

\* supabase's download reports a failure in its result; it does not throw
SQ_download(p) ==
  /\ proc[p].kind = "stream" /\ proc[p].pc = "download"
  /\ \/ /\ Goto(p, "filesCreate")
        /\ Completed(p, "download")
        /\ UNCHANGED <<sse, faults>>
     \/ /\ faults < MaxFaults
        /\ faults' = faults + 1
        /\ writeSSE(p, ErrorEvent("Failed to download file from storage"))
        /\ Goto(p, "closed")
        /\ UNCHANGED steps
  /\ UNCHANGED <<chat, file, chatMessage, thread, uploads, runs, cachedAssistantId,
                 titleWrites, streamed>>
  /\ UNCHANGED <<client, hook, storage>>

\* openai.files.create: the provider stores the upload and names it with a new id
SQ_filesCreate(p) ==
  /\ proc[p].kind = "stream" /\ proc[p].pc = "filesCreate"
  /\ \/ /\ uploads' = Append(uploads, proc[p].chatRecord.fileId)
        /\ proc' = [proc EXCEPT ![p].pc = "updateFile", ![p].openaiFileId = Len(uploads) + 1]
        /\ Completed(p, "filesCreate")
        /\ UNCHANGED <<chat, file, chatMessage, thread, runs, cachedAssistantId,
                       sse, titleWrites, faults, streamed>>
     \/ HandlerCatch(p, ProviderError)
  /\ UNCHANGED <<client, hook, storage>>

SQ_updateFile(p) ==
  /\ proc[p].kind = "stream" /\ proc[p].pc = "updateFile"
  /\ \/ LET f == proc[p].chatRecord.fileId
        IN /\ file' = IF f \in DOMAIN file
                        THEN [file EXCEPT ![f].openaiFileId = proc[p].openaiFileId]
                        ELSE file
           /\ Goto(p, "insertUser")
           /\ Completed(p, "updateFile")
           /\ UNCHANGED <<chat, chatMessage, thread, uploads, runs, cachedAssistantId,
                          sse, titleWrites, faults, streamed>>
     \/ HandlerCatch(p, DbError)
  /\ UNCHANGED <<client, hook, storage>>

\* the insert of the user message, then isFirstMessage = !chatRecord.title
SQ_insertUser(p) ==
  /\ proc[p].kind = "stream" /\ proc[p].pc = "insertUser"
  /\ \/ /\ proc[p].chatId \in DOMAIN chat
        /\ chatMessage' = Append(chatMessage,
               [id |-> Len(chatMessage) + 1, chatId |-> proc[p].chatId,
                role |-> "user", content |-> proc[p].question])
        /\ Completed(p, "insertUser")
        /\ IF proc[p].chatRecord.title = <<>>
             THEN /\ proc' = [proc EXCEPT ![p].pc = "updateTitle",
                                          ![p].userMessageId = Len(chatMessage) + 1]
                  /\ UNCHANGED sse
             ELSE /\ proc' = [proc EXCEPT ![p].pc = "getAssistant",
                                          ![p].userMessageId = Len(chatMessage) + 1]
                  /\ writeSSE(p, StatusEvent("Searching document..."))
        /\ UNCHANGED <<chat, file, thread, uploads, runs, cachedAssistantId,
                       titleWrites, faults, streamed>>
     \/ HandlerCatch(p, DbError)
     \/ proc[p].chatId \notin DOMAIN chat /\ ForeignKeyCatch(p)
  /\ UNCHANGED <<client, hook, storage>>

SQ_updateTitle(p) ==
  /\ proc[p].kind = "stream" /\ proc[p].pc = "updateTitle"
  /\ \/ LET c == proc[p].chatId
        IN /\ chat' = IF c \in DOMAIN chat
                        THEN [chat EXCEPT ![c].title = StreamTitle(proc[p].question)]
                        ELSE chat
           /\ titleWrites' = IF c \in DOMAIN chat
                               THEN [titleWrites EXCEPT ![c] = @ \cup {p}]
                               ELSE titleWrites
           /\ Goto(p, "getAssistant")
           /\ Completed(p, "updateTitle")
           /\ writeSSE(p, StatusEvent("Searching document..."))
           /\ UNCHANGED <<file, chatMessage, thread, uploads, runs, cachedAssistantId,
                          faults, streamed>>
     \/ HandlerCatch(p, DbError)
  /\ UNCHANGED <<client, hook, storage>>

\* lib/openai getOrCreateAssistant: the cached id, else OPENAI_ASSISTANT_ID or a
\* newly created assistant (a provider call, which can fail); either way the id
\* is cached.  Assistant ids are 1 and up.
SQ_getAssistant(p) ==
  /\ proc[p].kind = "stream" /\ proc[p].pc = "getAssistant"
  /\ \/ /\ cachedAssistantId' = IF cachedAssistantId # 0 THEN cachedAssistantId ELSE 1
        /\ Goto(p, "count")
        /\ Completed(p, "getAssistant")
        /\ UNCHANGED <<chat, file, chatMessage, thread, uploads, runs, sse,
                       titleWrites, faults, streamed>>
     \/ /\ cachedAssistantId = 0
        /\ HandlerCatch(p, ProviderError)
  /\ UNCHANGED <<client, hook, storage>>

\* isFirstChatMessage = (count of the chat's messages) <= 1
SQ_count(p) ==
  /\ proc[p].kind = "stream" /\ proc[p].pc = "count"
  /\ \/ /\ proc' = [proc EXCEPT ![p].pc = "messagesCreate",
              ![p].isFirstChatMessage = SQ_IsFirstChatMessage(proc[p].chatId)]
        /\ Completed(p, "count")
        /\ UNCHANGED <<chat, file, chatMessage, thread, uploads, runs, cachedAssistantId,
                       sse, titleWrites, faults, streamed>>
     \/ HandlerCatch(p, DbError)
  /\ UNCHANGED <<client, hook, storage>>

\* openai.beta.threads.messages.create, with the attachment on the first message
SQ_messagesCreate(p) ==
  /\ proc[p].kind = "stream" /\ proc[p].pc = "messagesCreate"
  /\ \/ LET t == proc[p].chatRecord.openaiThreadId
        IN /\ thread' = [thread EXCEPT ![t] = Append(@,
                 [role |-> "user", content |-> proc[p].question, text |-> TRUE,
                  attachments |-> IF proc[p].isFirstChatMessage
                                    THEN <<proc[p].openaiFileId>> ELSE <<>>])]
           /\ Goto(p, "runStream")
           /\ Completed(p, "messagesCreate")
           /\ UNCHANGED <<chat, file, chatMessage, uploads, runs, cachedAssistantId,
                          sse, titleWrites, faults, streamed>>
     \/ HandlerCatch(p, ProviderError)
  /\ UNCHANGED <<client, hook, storage>>

\* openai.beta.threads.runs.stream: the run starts on the thread as it is now
SQ_runStream(p) ==
  /\ proc[p].kind = "stream" /\ proc[p].pc = "runStream"
  /\ LET t == proc[p].chatRecord.openaiThreadId
     IN runs' = runs \cup {[thread |-> t, by |-> p, seeded |-> Seeded(t)]}
  /\ proc' = [proc EXCEPT ![p].pc = "streaming", ![p].fullContent = <<>>]
  /\ Completed(p, "runStream")
  /\ UNCHANGED <<chat, file, chatMessage, thread, uploads, cachedAssistantId,
                 sse, titleWrites, faults, streamed>>
  /\ UNCHANGED <<client, hook, storage>>

SQ_streamEvent_Undo(p) ==
  /\ proc[p].kind = "stream" /\ proc[p].pc = "streaming"
  /\ \/ \* thread.message.delta with one content block; a block with no text is skipped
        /\ streamed < MaxDeltas
        /\ streamed' = streamed + 1
        /\ \E text \in {<<>>, BlockText(streamed + 1)} :
             IF text # <<>>
               THEN /\ proc' = [proc EXCEPT ![p].fullContent = Accumulate(@, text)]
                    /\ writeSSE(p, DeltaEvent(text))
               ELSE UNCHANGED <<proc, sse>>
        /\ UNCHANGED <<thread, faults>>
        /\ UNCHANGED chatMessage
     \/ \* thread.run.failed: error?.message || "Assistant run failed"
        /\ faults < MaxFaults
        /\ faults' = faults + 1
        /\ \E lastError \in {"", "rate limit exceeded"} :
             writeSSE(p, ErrorEvent(IF lastError # "" THEN lastError
                                    ELSE "Assistant run failed"))
        /\ Goto(p, "closed")
        /\ UNCHANGED <<thread, streamed>>
        /\ chatMessage' = [chatMessage EXCEPT ![proc[p].userMessageId].chatId = ""]
     \/ \* the stream throws: caught inside streamQuestion
        /\ faults < MaxFaults
        /\ faults' = faults + 1
        /\ writeSSE(p, ErrorEvent(CaughtMessage(ProviderError)))
        /\ Goto(p, "closed")
        /\ UNCHANGED <<thread, streamed>>
        /\ UNCHANGED chatMessage
     \/ \* the stream ends; the provider has added the answer to the thread
        /\ LET t == proc[p].chatRecord.openaiThreadId
           IN thread' = IF proc[p].fullContent # <<>>
                          THEN [thread EXCEPT ![t] = Append(@,
                                  [role |-> "assistant", content |-> proc[p].fullContent,
                                   text |-> TRUE, attachments |-> <<>>])]
                          ELSE thread
        /\ IF proc[p].fullContent = <<>>
             THEN /\ writeSSE(p, ErrorEvent("No response received from assistant"))
                  /\ Goto(p, "closed")
             ELSE /\ Goto(p, "insertAssistant")
                  /\ UNCHANGED sse
        /\ UNCHANGED <<faults, streamed>>
        /\ UNCHANGED chatMessage
  /\ UNCHANGED <<chat, file, uploads, runs, cachedAssistantId, steps, titleWrites>>
  /\ UNCHANGED <<client, hook, storage>>

\* one event of the run's stream, or its end
SQ_streamEvent(p) ==
  /\ proc[p].kind = "stream" /\ proc[p].pc = "streaming"
  /\ \/ \* thread.message.delta with one content block; a block with no text is skipped
        /\ streamed < MaxDeltas
        /\ streamed' = streamed + 1
        /\ \E text \in {<<>>, BlockText(streamed + 1)} :
             IF text # <<>>
               THEN /\ proc' = [proc EXCEPT ![p].fullContent = Accumulate(@, text)]
                    /\ writeSSE(p, DeltaEvent(text))
               ELSE UNCHANGED <<proc, sse>>
        /\ UNCHANGED <<thread, faults>>
     \/ \* thread.run.failed: error?.message || "Assistant run failed"
        /\ faults < MaxFaults
        /\ faults' = faults + 1
        /\ \E lastError \in {"", "rate limit exceeded"} :
             writeSSE(p, ErrorEvent(IF lastError # "" THEN lastError
                                    ELSE "Assistant run failed"))
        /\ Goto(p, "closed")
        /\ UNCHANGED <<thread, streamed>>
     \/ \* the stream throws: caught inside streamQuestion
        /\ faults < MaxFaults
        /\ faults' = faults + 1
        /\ writeSSE(p, ErrorEvent(CaughtMessage(ProviderError)))
        /\ Goto(p, "closed")
        /\ UNCHANGED <<thread, streamed>>
     \/ \* the stream ends; the provider has added the answer to the thread
        /\ LET t == proc[p].chatRecord.openaiThreadId
           IN thread' = IF proc[p].fullContent # <<>>
                          THEN [thread EXCEPT ![t] = Append(@,
                                  [role |-> "assistant", content |-> proc[p].fullContent,
                                   text |-> TRUE, attachments |-> <<>>])]
                          ELSE thread
        /\ IF proc[p].fullContent = <<>>
             THEN /\ writeSSE(p, ErrorEvent("No response received from assistant"))
                  /\ Goto(p, "closed")
             ELSE /\ Goto(p, "insertAssistant")
                  /\ UNCHANGED sse
        /\ UNCHANGED <<faults, streamed>>
  /\ UNCHANGED <<chat, file, chatMessage, uploads, runs, cachedAssistantId,
                 steps, titleWrites>>
  /\ UNCHANGED <<client, hook, storage>>

SQ_insertAssistant_NoInsert(p) ==
  /\ proc[p].kind = "stream" /\ proc[p].pc = "insertAssistant"
  /\ proc' = [proc EXCEPT ![p].pc = "done", ![p].assistantMessageId = Len(chatMessage) + 1]
  /\ Completed(p, "insertAssistant")
  /\ UNCHANGED <<chat, file, chatMessage, thread, uploads, runs, cachedAssistantId,
                 sse, titleWrites, faults, streamed>>
  /\ UNCHANGED <<client, hook, storage>>

SQ_insertAssistant(p) ==
  /\ proc[p].kind = "stream" /\ proc[p].pc = "insertAssistant"
  /\ \/ /\ proc[p].chatId \in DOMAIN chat
        /\ chatMessage' = Append(chatMessage,
               [id |-> Len(chatMessage) + 1, chatId |-> proc[p].chatId,
                role |-> "assistant", content |-> proc[p].fullContent])
        /\ proc' = [proc EXCEPT ![p].pc = "done",
                                ![p].assistantMessageId = Len(chatMessage) + 1]
        /\ Completed(p, "insertAssistant")
        /\ UNCHANGED <<chat, file, thread, uploads, runs, cachedAssistantId,
                       sse, titleWrites, faults, streamed>>
     \/ HandlerCatch(p, DbError)
     \/ proc[p].chatId \notin DOMAIN chat /\ ForeignKeyCatch(p)
  /\ UNCHANGED <<client, hook, storage>>

SQ_done(p) ==
  /\ proc[p].kind = "stream" /\ proc[p].pc = "done"
  /\ writeSSE(p, DoneEvent(proc[p].userMessageId, proc[p].assistantMessageId))
  /\ Goto(p, "closed")
  /\ Completed(p, "done")
  /\ UNCHANGED <<chat, file, chatMessage, thread, uploads, runs, cachedAssistantId,
                 titleWrites, faults, streamed>>
  /\ UNCHANGED <<client, hook, storage>>

streamQuestion(p) ==
  \/ SQ_chatLookup(p) \/ SQ_fileLookup(p) \/ SQ_download(p) \/ SQ_filesCreate(p)
  \/ SQ_updateFile(p) \/ SQ_insertUser(p) \/ SQ_updateTitle(p) \/ SQ_getAssistant(p)
  \/ SQ_count(p) \/ SQ_messagesCreate(p) \/ SQ_runStream(p) \/ SQ_streamEvent(p)
  \/ SQ_insertAssistant(p) \/ SQ_done(p)

\* ------------------------------------------------------------ tRPC procedures
\* packages/api/src/index.ts: protectedProcedure runs its resolver only for a
\* request with a session, and hands it that session as ctx.session; without
\* one it throws UNAUTHORIZED.  publicProcedure runs the resolver in any case.
protectedProcedure(session) ==
  IF session = NoSession
    THEN [ok |-> FALSE, code |-> "UNAUTHORIZED", ctxUser |-> ""]
    ELSE [ok |-> TRUE, code |-> "none", ctxUser |-> session]
publicProcedure(session) == [ok |-> TRUE, code |-> "none", ctxUser |-> ""]

Returns(p, r) == proc' = [proc EXCEPT ![p] = [r EXCEPT !.pc = "closed", !.result = "ok"]]
\* throw new TRPCError({code, message})
Rejects(p, code, msg) ==
  proc' = [proc EXCEPT ![p].pc = "closed", ![p].result = code, ![p].message = msg]
\* an await of a resolver rejects: tRPC answers INTERNAL_SERVER_ERROR
Fails(p, e) ==
  /\ faults < MaxFaults
  /\ faults' = faults + 1
  /\ Rejects(p, "INTERNAL_SERVER_ERROR", CaughtMessage(e))
  /\ UNCHANGED <<chat, file, chatMessage, thread, uploads, runs, cachedAssistantId,
                 sse, steps, titleWrites, streamed>>

ForeignKeyFails(p) ==
  /\ Rejects(p, "INTERNAL_SERVER_ERROR", CaughtMessage(ForeignKeyError))
  /\ UNCHANGED <<chat, file, chatMessage, thread, uploads, runs, cachedAssistantId,
                 sse, steps, titleWrites, faults, streamed>>

\* appRouter.healthCheck: publicProcedure.query(() => "OK")
healthCheck(p) ==
  /\ Arrives(p)
  /\ \E session \in Users \cup {NoSession} :
       LET req == [proc[p] EXCEPT !.kind = "healthCheck", !.session = session]
           ctx == publicProcedure(session)
       IN IF ctx.ok THEN Returns(p, [req EXCEPT !.ran = TRUE])
          ELSE proc' = [proc EXCEPT ![p] = [req EXCEPT !.pc = "closed", !.result = ctx.code]]
  /\ UNCHANGED <<chat, file, chatMessage, thread, uploads, runs, cachedAssistantId,
                 sse, steps, titleWrites, faults, streamed>>
  /\ UNCHANGED <<client, hook, storage>>

privateData_Public(p) ==
  /\ Arrives(p)
  /\ \E session \in Users \cup {NoSession} :
       LET req == [proc[p] EXCEPT !.kind = "privateData", !.session = session]
           ctx == publicProcedure(session)
       IN IF ctx.ok THEN Returns(p, [req EXCEPT !.ran = TRUE, !.userId = ctx.ctxUser])
          ELSE proc' = [proc EXCEPT ![p] = [req EXCEPT !.pc = "closed", !.result = ctx.code]]
  /\ UNCHANGED <<chat, file, chatMessage, thread, uploads, runs, cachedAssistantId,
                 sse, steps, titleWrites, faults, streamed>>
  /\ UNCHANGED <<client, hook, storage>>

\* appRouter.privateData: protectedProcedure.query(({ctx}) => ({user: ctx.session.user}))
privateData(p) ==
  /\ Arrives(p)
  /\ \E session \in Users \cup {NoSession} :
       LET req == [proc[p] EXCEPT !.kind = "privateData", !.session = session]
           ctx == protectedProcedure(session)
       IN IF ctx.ok THEN Returns(p, [req EXCEPT !.ran = TRUE, !.userId = ctx.ctxUser])
          ELSE proc' = [proc EXCEPT ![p] = [req EXCEPT !.pc = "closed", !.result = ctx.code]]
  /\ UNCHANGED <<chat, file, chatMessage, thread, uploads, runs, cachedAssistantId,
                 sse, steps, titleWrites, faults, streamed>>
  /\ UNCHANGED <<client, hook, storage>>

\* ------------------------------------------------------- chat.syncFileToOpenAI
\* z.string().uuid(): "" stands for an id that is no uuid
syncFileToOpenAI(p) ==
  /\ Arrives(p)
  /\ \E session \in Users \cup {NoSession}, fileId \in {"", "f1", "f404"} :
       LET req == [proc[p] EXCEPT !.kind = "sync", !.session = session, !.fileId = fileId]
           ctx == protectedProcedure(session)
       IN proc' = [proc EXCEPT ![p] =
            IF ~ctx.ok THEN [req EXCEPT !.pc = "closed", !.result = ctx.code]
            ELSE IF fileId = "" THEN [req EXCEPT !.pc = "closed", !.result = "BAD_REQUEST"]
            ELSE [req EXCEPT !.pc = "fileLookup", !.ran = TRUE, !.userId = ctx.ctxUser]]
  /\ UNCHANGED <<chat, file, chatMessage, thread, uploads, runs, cachedAssistantId,
                 sse, steps, titleWrites, faults, streamed>>
  /\ UNCHANGED <<client, hook, storage>>

SY_fileLookup(p) ==
  /\ proc[p].kind = "sync" /\ proc[p].pc = "fileLookup"
  /\ \/ LET f == proc[p].fileId
            found == f \in DOMAIN file /\ file[f].userId = proc[p].userId
        IN /\ IF ~found THEN Rejects(p, "NOT_FOUND", "File not found")
              ELSE IF file[f].openaiFileId # 0
                THEN Returns(p, [proc[p] EXCEPT !.openaiFileId = file[f].openaiFileId])
              ELSE Goto(p, "download")
           /\ UNCHANGED <<chat, file, chatMessage, thread, uploads, runs,
                          cachedAssistantId, sse, steps, titleWrites, faults, streamed>>
     \/ Fails(p, DbError)
  /\ UNCHANGED <<client, hook, storage>>

SY_download(p) ==
  /\ proc[p].kind = "sync" /\ proc[p].pc = "download"
  /\ \/ /\ Goto(p, "filesCreate")
        /\ UNCHANGED faults
     \/ /\ faults < MaxFaults
        /\ faults' = faults + 1
        /\ Rejects(p, "INTERNAL_SERVER_ERROR", "Failed to download file from storage")
  /\ UNCHANGED <<chat, file, chatMessage, thread, uploads, runs, cachedAssistantId,
                 sse, steps, titleWrites, streamed>>
  /\ UNCHANGED <<client, hook, storage>>

SY_filesCreate(p) ==
  /\ proc[p].kind = "sync" /\ proc[p].pc = "filesCreate"
  /\ \/ /\ uploads' = Append(uploads, proc[p].fileId)
        /\ proc' = [proc EXCEPT ![p].pc = "updateFile", ![p].openaiFileId = Len(uploads) + 1]
        /\ UNCHANGED <<chat, file, chatMessage, thread, runs, cachedAssistantId,
                       sse, steps, titleWrites, faults, streamed>>
     \/ Fails(p, ProviderError)
  /\ UNCHANGED <<client, hook, storage>>

SY_updateFile(p) ==
  /\ proc[p].kind = "sync" /\ proc[p].pc = "updateFile"
  /\ \/ LET f == proc[p].fileId
        IN /\ file' = IF f \in DOMAIN file
                        THEN [file EXCEPT ![f].openaiFileId = proc[p].openaiFileId]
                        ELSE file
           /\ Returns(p, proc[p])
           /\ UNCHANGED <<chat, chatMessage, thread, uploads, runs, cachedAssistantId,
                          sse, steps, titleWrites, faults, streamed>>
     \/ Fails(p, DbError)
  /\ UNCHANGED <<client, hook, storage>>

syncFile(p) == SY_fileLookup(p) \/ SY_download(p) \/ SY_filesCreate(p) \/ SY_updateFile(p)

\* ------------------------------------------------------------ chat.askQuestion
\* input: chatId z.string().uuid(), question z.string().min(1).max(2000)
ValidAskInput(chatId, question) ==
  chatId # "" /\ Len(question) >= 1 /\ Len(question) <= QuestionMax

\* input.question.length > 50 ? `${input.question.substring(0, 50)}...` : input.question
AskTitle(q) ==
  IF Len(q) > AskTitleMax THEN SubSeq(q, 1, AskTitleMax) \o <<".", ".", ".">> ELSE q

\* the procedure, for an input whose question is one of questions
askQuestionWith(p, questions) ==
  /\ Arrives(p)
  /\ \E session \in Users \cup {NoSession}, chatId \in {"", "c1", "c404"},
        question \in questions :
       LET req == [proc[p] EXCEPT !.kind = "ask", !.session = session,
                                  !.chatId = chatId, !.question = question]
           ctx == protectedProcedure(session)
       IN proc' = [proc EXCEPT ![p] =
            IF ~ctx.ok THEN [req EXCEPT !.pc = "closed", !.result = ctx.code]
            ELSE IF ~ValidAskInput(chatId, question)
              THEN [req EXCEPT !.pc = "closed", !.result = "BAD_REQUEST"]
            ELSE [req EXCEPT !.pc = "chatLookup", !.ran = TRUE, !.userId = ctx.ctxUser]]
  /\ UNCHANGED <<chat, file, chatMessage, thread, uploads, runs, cachedAssistantId,
                 sse, steps, titleWrites, faults, streamed>>
  /\ UNCHANGED <<client, hook, storage>>

askQuestion(p) == askQuestionWith(p, {<<>>, Question(p)})

AQ_chatLookup(p) ==
  /\ proc[p].kind = "ask" /\ proc[p].pc = "chatLookup"
  /\ \/ LET c == proc[p].chatId
            found == c \in DOMAIN chat /\ chat[c].userId = proc[p].userId
        IN /\ IF found
                THEN proc' = [proc EXCEPT ![p].pc = "fileLookup",
                                ![p].chatRecord = [fileId |-> chat[c].fileId,
                                                   openaiThreadId |-> chat[c].openaiThreadId,
                                                   title |-> chat[c].title]]
                ELSE Rejects(p, "NOT_FOUND", "Chat not found")
           /\ UNCHANGED <<chat, file, chatMessage, thread, uploads, runs,
                          cachedAssistantId, sse, steps, titleWrites, faults, streamed>>
     \/ Fails(p, DbError)
  /\ UNCHANGED <<client, hook, storage>>

AQ_fileLookup(p) ==
  /\ proc[p].kind = "ask" /\ proc[p].pc = "fileLookup"
  /\ \/ LET f == proc[p].chatRecord.fileId
        IN /\ IF f \notin DOMAIN file THEN Rejects(p, "NOT_FOUND", "File not found")
              ELSE proc' = [proc EXCEPT
                     ![p].pc = IF file[f].openaiFileId = 0 THEN "download" ELSE "insertUser",
                     ![p].fileRecord = [openaiFileId |-> file[f].openaiFileId],
                     ![p].openaiFileId = file[f].openaiFileId]
           /\ UNCHANGED <<chat, file, chatMessage, thread, uploads, runs,
                          cachedAssistantId, sse, steps, titleWrites, faults, streamed>>
     \/ Fails(p, DbError)
  /\ UNCHANGED <<client, hook, storage>>

AQ_download(p) ==
  /\ proc[p].kind = "ask" /\ proc[p].pc = "download"
  /\ \/ /\ Goto(p, "filesCreate")
        /\ UNCHANGED faults
     \/ /\ faults < MaxFaults
        /\ faults' = faults + 1
        /\ Rejects(p, "INTERNAL_SERVER_ERROR", "Failed to download file from storage")
  /\ UNCHANGED <<chat, file, chatMessage, thread, uploads, runs, cachedAssistantId,
                 sse, steps, titleWrites, streamed>>
  /\ UNCHANGED <<client, hook, storage>>

AQ_filesCreate(p) ==
  /\ proc[p].kind = "ask" /\ proc[p].pc = "filesCreate"
  /\ \/ /\ uploads' = Append(uploads, proc[p].chatRecord.fileId)
        /\ proc' = [proc EXCEPT ![p].pc = "updateFile", ![p].openaiFileId = Len(uploads) + 1]
        /\ UNCHANGED <<chat, file, chatMessage, thread, runs, cachedAssistantId,
                       sse, steps, titleWrites, faults, streamed>>
     \/ Fails(p, ProviderError)
  /\ UNCHANGED <<client, hook, storage>>

AQ_updateFile(p) ==
  /\ proc[p].kind = "ask" /\ proc[p].pc = "updateFile"
  /\ \/ LET f == proc[p].chatRecord.fileId
        IN /\ file' = IF f \in DOMAIN file
                        THEN [file EXCEPT ![f].openaiFileId = proc[p].openaiFileId]
                        ELSE file
           /\ Goto(p, "insertUser")
           /\ UNCHANGED <<chat, chatMessage, thread, uploads, runs, cachedAssistantId,
                          sse, steps, titleWrites, faults, streamed>>
     \/ Fails(p, DbError)
  /\ UNCHANGED <<client, hook, storage>>

AQ_insertUser(p) ==
  /\ proc[p].kind = "ask" /\ proc[p].pc = "insertUser"
  /\ \/ /\ proc[p].chatId \in DOMAIN chat
        /\ chatMessage' = Append(chatMessage,
               [id |-> Len(chatMessage) + 1, chatId |-> proc[p].chatId,
                role |-> "user", content |-> proc[p].question])
        /\ proc' = [proc EXCEPT
              ![p].pc = IF proc[p].chatRecord.title = <<>> THEN "updateTitle"
                        ELSE "getAssistant",
              ![p].userMessageId = Len(chatMessage) + 1]
        /\ UNCHANGED <<chat, file, thread, uploads, runs, cachedAssistantId,
                       sse, steps, titleWrites, faults, streamed>>
     \/ Fails(p, DbError)
     \/ proc[p].chatId \notin DOMAIN chat /\ ForeignKeyFails(p)
  /\ UNCHANGED <<client, hook, storage>>

AQ_updateTitle(p) ==
  /\ proc[p].kind = "ask" /\ proc[p].pc = "updateTitle"
  /\ \/ LET c == proc[p].chatId
        IN /\ chat' = IF c \in DOMAIN chat
                        THEN [chat EXCEPT ![c].title = AskTitle(proc[p].question)]
                        ELSE chat
           /\ titleWrites' = IF c \in DOMAIN chat
                               THEN [titleWrites EXCEPT ![c] = @ \cup {p}]
                               ELSE titleWrites
           /\ Goto(p, "getAssistant")
           /\ UNCHANGED <<file, chatMessage, thread, uploads, runs, cachedAssistantId,
                          sse, steps, faults, streamed>>
     \/ Fails(p, DbError)
  /\ UNCHANGED <<client, hook, storage>>

AQ_getAssistant(p) ==
  /\ proc[p].kind = "ask" /\ proc[p].pc = "getAssistant"
  /\ \/ /\ cachedAssistantId' = IF cachedAssistantId # 0 THEN cachedAssistantId ELSE 1
        /\ Goto(p, "count")
        /\ UNCHANGED <<chat, file, chatMessage, thread, uploads, runs, sse, steps,
                       titleWrites, faults, streamed>>
     \/ /\ cachedAssistantId = 0
        /\ Fails(p, ProviderError)
  /\ UNCHANGED <<client, hook, storage>>

\* isFirstChatMessage = (messageCount[0]?.count ?? 0) <= 1
AQ_IsFirstChatMessage(c) == Cardinality(MessagesOf(c)) <= 1

AQ_count(p) ==
  /\ proc[p].kind = "ask" /\ proc[p].pc = "count"
  /\ \/ /\ proc' = [proc EXCEPT ![p].pc = "messagesCreate",
              ![p].isFirstChatMessage = AQ_IsFirstChatMessage(proc[p].chatId)]
        /\ UNCHANGED <<chat, file, chatMessage, thread, uploads, runs, cachedAssistantId,
                       sse, steps, titleWrites, faults, streamed>>
     \/ Fails(p, DbError)
  /\ UNCHANGED <<client, hook, storage>>

AQ_messagesCreate(p) ==
  /\ proc[p].kind = "ask" /\ proc[p].pc = "messagesCreate"
  /\ \/ LET t == proc[p].chatRecord.openaiThreadId
        IN /\ thread' = [thread EXCEPT ![t] = Append(@,
                 [role |-> "user", content |-> proc[p].question, text |-> TRUE,
                  attachments |-> IF proc[p].isFirstChatMessage
                                    THEN <<proc[p].openaiFileId>> ELSE <<>>])]
           /\ Goto(p, "createAndPoll")
           /\ UNCHANGED <<chat, file, chatMessage, uploads, runs, cachedAssistantId,
                          sse, steps, titleWrites, faults, streamed>>
     \/ Fails(p, ProviderError)
  /\ UNCHANGED <<client, hook, storage>>

\* openai.beta.threads.runs.createAndPoll: the run starts on the thread as it is
\* now; completed, it has added its answer (with or without a text block) to the
\* thread; any other final status is thrown as INTERNAL_SERVER_ERROR.
AQ_createAndPoll(p) ==
  /\ proc[p].kind = "ask" /\ proc[p].pc = "createAndPoll"
  /\ LET t == proc[p].chatRecord.openaiThreadId
         run == [thread |-> t, by |-> p, seeded |-> Seeded(t)]
     IN \/ /\ streamed < MaxDeltas
           /\ streamed' = streamed + 1
           /\ runs' = runs \cup {run}
           /\ \E hasText \in BOOLEAN :
                thread' = [thread EXCEPT ![t] = Append(@,
                  [role |-> "assistant", text |-> hasText, attachments |-> <<>>,
                   content |-> IF hasText THEN BlockText(streamed + 1) ELSE <<>>])]
           /\ Goto(p, "messagesList")
           /\ UNCHANGED faults
        \/ /\ faults < MaxFaults
           /\ faults' = faults + 1
           /\ runs' = runs \cup {run}
           /\ Rejects(p, "INTERNAL_SERVER_ERROR", "Assistant run failed with status")
           /\ UNCHANGED <<thread, streamed>>
  /\ UNCHANGED <<chat, file, chatMessage, uploads, cachedAssistantId, sse, steps,
                 titleWrites>>
  /\ UNCHANGED <<client, hook, storage>>

\* messages.list(thread, {order: "desc", limit: 1}), then the first text block
AQ_messagesList(p) ==
  /\ proc[p].kind = "ask" /\ proc[p].pc = "messagesList"
  /\ \/ LET msgs == thread[proc[p].chatRecord.openaiThreadId]
        IN /\ IF msgs = <<>> \/ msgs[Len(msgs)].role # "assistant"
                THEN Rejects(p, "INTERNAL_SERVER_ERROR", "No assistant response found")
              ELSE IF ~msgs[Len(msgs)].text
                THEN Rejects(p, "INTERNAL_SERVER_ERROR", "No text content in response")
              ELSE proc' = [proc EXCEPT ![p].pc = "insertAssistant",
                                        ![p].answer = msgs[Len(msgs)].content]
           /\ UNCHANGED <<chat, file, chatMessage, thread, uploads, runs,
                          cachedAssistantId, sse, steps, titleWrites, faults, streamed>>
     \/ Fails(p, ProviderError)
  /\ UNCHANGED <<client, hook, storage>>

AQ_insertAssistant(p) ==
  /\ proc[p].kind = "ask" /\ proc[p].pc = "insertAssistant"
  /\ \/ /\ proc[p].chatId \in DOMAIN chat
        /\ chatMessage' = Append(chatMessage,
               [id |-> Len(chatMessage) + 1, chatId |-> proc[p].chatId,
                role |-> "assistant", content |-> proc[p].answer])
        /\ Returns(p, [proc[p] EXCEPT !.assistantMessageId = Len(chatMessage) + 1])
        /\ UNCHANGED <<chat, file, thread, uploads, runs, cachedAssistantId,
                       sse, steps, titleWrites, faults, streamed>>
     \/ Fails(p, DbError)
     \/ proc[p].chatId \notin DOMAIN chat /\ ForeignKeyFails(p)
  /\ UNCHANGED <<client, hook, storage>>

askQuestionResolver(p) ==
  \/ AQ_chatLookup(p) \/ AQ_fileLookup(p) \/ AQ_download(p) \/ AQ_filesCreate(p)
  \/ AQ_updateFile(p) \/ AQ_insertUser(p) \/ AQ_updateTitle(p) \/ AQ_getAssistant(p)
  \/ AQ_count(p) \/ AQ_messagesCreate(p) \/ AQ_createAndPoll(p) \/ AQ_messagesList(p)
  \/ AQ_insertAssistant(p)

Next ==
  \E p \in Procs :
    \/ PostChatStream(p) \/ streamQuestion(p)
    \/ healthCheck(p) \/ privateData(p)
    \/ syncFileToOpenAI(p) \/ syncFile(p)
    \/ askQuestion(p) \/ askQuestionResolver(p)

Spec == Init /\ [][Next]_vars

\* ------------------------------------------------- the files and chat routers
\* A resolver step that leaves the tables and the provider as they are.
Quiet ==
  UNCHANGED <<chat, file, chatMessage, thread, uploads, runs, cachedAssistantId,
              sse, steps, titleWrites, faults, streamed>>

\* protectedProcedure.input(schema): UNAUTHORIZED without a session, BAD_REQUEST
\* for an input the schema rejects, else the resolver starts at its first await.
Request(p, session, valid, first, req) ==
  LET ctx == protectedProcedure(session)
  IN proc' = [proc EXCEPT ![p] =
       IF ~ctx.ok THEN [req EXCEPT !.pc = "closed", !.result = ctx.code]
       ELSE IF ~valid THEN [req EXCEPT !.pc = "closed", !.result = "BAD_REQUEST"]
       ELSE [req EXCEPT !.pc = first, !.ran = TRUE, !.userId = ctx.ctxUser]]

\* where(and(eq(file.id, fileId), eq(file.userId, userId)))
OwnFile(f, u) == f \in DOMAIN file /\ file[f].userId = u
\* where(and(eq(chat.id, chatId), eq(chat.userId, userId)))
OwnChat(c, u) == c \in DOMAIN chat /\ chat[c].userId = u

\* onDelete: "cascade": deleting chats deletes their messages.  chatMessage keeps
\* the slot of a deleted row, with no chat, so that ids are never used again.
WithoutChats(S) ==
  /\ chat' = [c \in DOMAIN chat \ S |-> chat[c]]
  /\ chatMessage' = [i \in DOMAIN chatMessage |->
                       IF chatMessage[i].chatId \in S
                         THEN [chatMessage[i] EXCEPT !.chatId = ""]
                         ELSE chatMessage[i]]
\* db.delete(file).where(eq(file.id, f)), with the cascade to its chats
DeleteFile(f) ==
  /\ file' = [x \in DOMAIN file \ {f} |-> file[x]]
  /\ WithoutChats({c \in DOMAIN chat : chat[c].fileId = f})

\* z.string().uuid(): "" stands for an id that is no uuid
FileIds == {"", "f1", "f404"}
ChatIds == {"", "c1", "c404"}
\* crypto.randomUUID() and the provider's thread ids: new with every request
NewChatId(p) == <<"c2", "c3", "c4">>[p]
NewThreadId(p) == <<"t2", "t3", "t4">>[p]

\* ---- files.get
filesGet(p) ==
  /\ Arrives(p)
  /\ \E session \in Users \cup {NoSession}, fileId \in FileIds :
       Request(p, session, fileId # "", "select",
               [proc[p] EXCEPT !.kind = "files.get", !.session = session, !.fileId = fileId])
  /\ Quiet
  /\ UNCHANGED <<client, hook, storage>>

FG_select(p) ==
  /\ proc[p].kind = "files.get" /\ proc[p].pc = "select"
  /\ \/ /\ IF OwnFile(proc[p].fileId, proc[p].userId)
             THEN Returns(p, [proc[p] EXCEPT !.output.name = file[proc[p].fileId].name])
             ELSE Rejects(p, "NOT_FOUND", "File not found")
        /\ Quiet
     \/ Fails(p, DbError)
  /\ UNCHANGED <<client, hook, storage>>

\* ---- files.getDownloadUrl
filesGetDownloadUrl(p) ==
  /\ Arrives(p)
  /\ \E session \in Users \cup {NoSession}, fileId \in FileIds :
       Request(p, session, fileId # "", "select",
               [proc[p] EXCEPT !.kind = "files.getDownloadUrl", !.session = session,
                               !.fileId = fileId])
  /\ Quiet
  /\ UNCHANGED <<client, hook, storage>>

FU_select(p) ==
  /\ proc[p].kind = "files.getDownloadUrl" /\ proc[p].pc = "select"
  /\ \/ /\ IF OwnFile(proc[p].fileId, proc[p].userId)
             THEN Goto(p, "createSignedUrl")
             ELSE Rejects(p, "NOT_FOUND", "File not found")
        /\ Quiet
     \/ Fails(p, DbError)
  /\ UNCHANGED <<client, hook, storage>>

\* storage.createSignedUrl reports a failure in its result
FU_createSignedUrl(p) ==
  /\ proc[p].kind = "files.getDownloadUrl" /\ proc[p].pc = "createSignedUrl"
  /\ \/ Returns(p, proc[p]) /\ UNCHANGED faults
     \/ /\ faults < MaxFaults
        /\ faults' = faults + 1
        /\ proc' = [proc EXCEPT ![p].pc = "closed", ![p].result = "INTERNAL_SERVER_ERROR",
                                ![p].message = "Failed to create download URL",
                                ![p].storageError = TRUE]
  /\ UNCHANGED <<chat, file, chatMessage, thread, uploads, runs, cachedAssistantId,
                 sse, steps, titleWrites, streamed>>
  /\ UNCHANGED <<client, hook, storage>>

\* ---- files.confirmUpload; name is optional, "" stands for no name
confirmUpload(p) ==
  /\ Arrives(p)
  /\ \E session \in Users \cup {NoSession}, fileId \in FileIds, name \in {"", "final.pdf"} :
       Request(p, session, fileId # "", "select",
               [proc[p] EXCEPT !.kind = "files.confirmUpload", !.session = session,
                               !.fileId = fileId, !.name = name])
  /\ Quiet
  /\ UNCHANGED <<client, hook, storage>>

CU_select(p) ==
  /\ proc[p].kind = "files.confirmUpload" /\ proc[p].pc = "select"
  /\ \/ /\ IF OwnFile(proc[p].fileId, proc[p].userId)
             THEN Goto(p, "list")
             ELSE Rejects(p, "NOT_FOUND", "File not found")
        /\ Quiet
     \/ Fails(p, DbError)
  /\ UNCHANGED <<client, hook, storage>>

\* storage.list(userId, {search: fileName}); error || !storageFiles ||
\* storageFiles.length === 0 leads to the delete of the record
CU_list_Keep(p) ==
  /\ proc[p].kind = "files.confirmUpload" /\ proc[p].pc = "list"
  /\ IF proc[p].name # "" THEN Goto(p, "update") ELSE Returns(p, proc[p])
  /\ Quiet
  /\ UNCHANGED <<client, hook, storage>>

CU_list(p) ==
  /\ proc[p].kind = "files.confirmUpload" /\ proc[p].pc = "list"
  /\ \/ /\ IF proc[p].fileId \notin storage THEN Goto(p, "delete")
           ELSE IF proc[p].name # "" THEN Goto(p, "update")
           ELSE Returns(p, proc[p])
        /\ UNCHANGED faults
     \/ /\ faults < MaxFaults
        /\ faults' = faults + 1
        /\ proc' = [proc EXCEPT ![p].pc = "delete", ![p].storageError = TRUE]
  /\ UNCHANGED <<chat, file, chatMessage, thread, uploads, runs, cachedAssistantId,
                 sse, steps, titleWrites, streamed>>
  /\ UNCHANGED <<client, hook, storage>>

\* await db.delete(file).where(eq(file.id, input.fileId)); throw BAD_REQUEST
CU_delete(p) ==
  /\ proc[p].kind = "files.confirmUpload" /\ proc[p].pc = "delete"
  /\ \/ /\ DeleteFile(proc[p].fileId)
        /\ Rejects(p, "BAD_REQUEST", "Upload not completed or file not found in storage")
        /\ UNCHANGED <<thread, uploads, runs, cachedAssistantId, sse, steps, titleWrites,
                       faults, streamed>>
     \/ Fails(p, DbError)
  /\ UNCHANGED <<client, hook, storage>>

\* if (input.name) await db.update(file).set({name}).where(eq(file.id, input.fileId))
CU_update(p) ==
  /\ proc[p].kind = "files.confirmUpload" /\ proc[p].pc = "update"
  /\ \/ /\ file' = IF proc[p].fileId \in DOMAIN file
                     THEN [file EXCEPT ![proc[p].fileId].name = proc[p].name]
                     ELSE file
        /\ Returns(p, proc[p])
        /\ UNCHANGED <<chat, chatMessage, thread, uploads, runs, cachedAssistantId,
                       sse, steps, titleWrites, faults, streamed>>
     \/ Fails(p, DbError)
  /\ UNCHANGED <<client, hook, storage>>

\* ---- files.delete
filesDelete(p) ==
  /\ Arrives(p)
  /\ \E session \in Users \cup {NoSession}, fileId \in FileIds :
       Request(p, session, fileId # "", "select",
               [proc[p] EXCEPT !.kind = "files.delete", !.session = session,
                               !.fileId = fileId])
  /\ Quiet
  /\ UNCHANGED <<client, hook, storage>>

FD_select(p) ==
  /\ proc[p].kind = "files.delete" /\ proc[p].pc = "select"
  /\ \/ /\ IF OwnFile(proc[p].fileId, proc[p].userId)
             THEN Goto(p, "remove")
             ELSE Rejects(p, "NOT_FOUND", "File not found")
        /\ Quiet
     \/ Fails(p, DbError)
  /\ UNCHANGED <<client, hook, storage>>

FD_remove_Throw(p) ==
  /\ proc[p].kind = "files.delete" /\ proc[p].pc = "remove"
  /\ \/ /\ storage' = storage \ {proc[p].fileId}
        /\ Goto(p, "delete")
        /\ UNCHANGED faults
     \/ /\ faults < MaxFaults
        /\ faults' = faults + 1
        /\ proc' = [proc EXCEPT ![p].pc = "closed", ![p].result = "INTERNAL_SERVER_ERROR",
                                ![p].storageError = TRUE]
        /\ UNCHANGED storage
  /\ UNCHANGED <<chat, file, chatMessage, thread, uploads, runs, cachedAssistantId,
                 sse, steps, titleWrites, streamed>>
  /\ UNCHANGED <<client, hook>>

\* storage.remove([storagePath]); a storageError is logged and nothing more
FD_remove(p) ==
  /\ proc[p].kind = "files.delete" /\ proc[p].pc = "remove"
  /\ \/ /\ storage' = storage \ {proc[p].fileId}
        /\ Goto(p, "delete")
        /\ UNCHANGED faults
     \/ /\ faults < MaxFaults
        /\ faults' = faults + 1
        /\ proc' = [proc EXCEPT ![p].pc = "delete", ![p].storageError = TRUE]
        /\ UNCHANGED storage
  /\ UNCHANGED <<chat, file, chatMessage, thread, uploads, runs, cachedAssistantId,
                 sse, steps, titleWrites, streamed>>
  /\ UNCHANGED <<client, hook>>

\* await db.delete(file).where(eq(file.id, input.fileId)); return {success: true}
FD_delete(p) ==
  /\ proc[p].kind = "files.delete" /\ proc[p].pc = "delete"
  /\ \/ /\ DeleteFile(proc[p].fileId)
        /\ Returns(p, proc[p])
        /\ UNCHANGED <<thread, uploads, runs, cachedAssistantId, sse, steps, titleWrites,
                       faults, streamed>>
     \/ Fails(p, DbError)
  /\ UNCHANGED <<client, hook, storage>>

\* ---- files.rename: one update ... where id and userId ... returning
filesRename(p) ==
  /\ Arrives(p)
  /\ \E session \in Users \cup {NoSession}, fileId \in FileIds, name \in {"", "renamed.pdf"} :
       Request(p, session, fileId # "" /\ name # "", "update",
               [proc[p] EXCEPT !.kind = "files.rename", !.session = session,
                               !.fileId = fileId, !.name = name])
  /\ Quiet
  /\ UNCHANGED <<client, hook, storage>>

FR_update(p) ==
  /\ proc[p].kind = "files.rename" /\ proc[p].pc = "update"
  /\ \/ /\ IF OwnFile(proc[p].fileId, proc[p].userId)
             THEN /\ file' = [file EXCEPT ![proc[p].fileId].name = proc[p].name]
                  /\ Returns(p, proc[p])
             ELSE /\ Rejects(p, "NOT_FOUND", "File not found")
                  /\ UNCHANGED file
        /\ UNCHANGED <<chat, chatMessage, thread, uploads, runs, cachedAssistantId,
                       sse, steps, titleWrites, faults, streamed>>
     \/ Fails(p, DbError)
  /\ UNCHANGED <<client, hook, storage>>

filesRouter(p) ==
  \/ FG_select(p) \/ FU_select(p) \/ FU_createSignedUrl(p)
  \/ CU_select(p) \/ CU_list(p) \/ CU_delete(p) \/ CU_update(p)
  \/ FD_select(p) \/ FD_remove(p) \/ FD_delete(p) \/ FR_update(p)

\* ---- chat.create
chatCreate(p) ==
  /\ Arrives(p)
  /\ \E session \in Users \cup {NoSession}, fileId \in FileIds :
       Request(p, session, fileId # "", "select",
               [proc[p] EXCEPT !.kind = "chat.create", !.session = session,
                               !.fileId = fileId])
  /\ Quiet
  /\ UNCHANGED <<client, hook, storage>>

CC_select(p) ==
  /\ proc[p].kind = "chat.create" /\ proc[p].pc = "select"
  /\ \/ /\ IF OwnFile(proc[p].fileId, proc[p].userId)
             THEN Goto(p, "threadsCreate")
             ELSE Rejects(p, "NOT_FOUND", "File not found")
        /\ Quiet
     \/ Fails(p, DbError)
  /\ UNCHANGED <<client, hook, storage>>

\* openai.beta.threads.create()
CC_threadsCreate(p) ==
  /\ proc[p].kind = "chat.create" /\ proc[p].pc = "threadsCreate"
  /\ \/ /\ thread' = [t \in DOMAIN thread \cup {NewThreadId(p)} |->
                        IF t \in DOMAIN thread THEN thread[t] ELSE <<>>]
        /\ proc' = [proc EXCEPT ![p].pc = "insert",
                                ![p].chatRecord.openaiThreadId = NewThreadId(p)]
        /\ UNCHANGED <<chat, file, chatMessage, uploads, runs, cachedAssistantId,
                       sse, steps, titleWrites, faults, streamed>>
     \/ Fails(p, ProviderError)
  /\ UNCHANGED <<client, hook, storage>>

\* db.insert(chat).values({id, userId, fileId, openaiThreadId}); chat.fileId
\* references file.id
CC_insert(p) ==
  /\ proc[p].kind = "chat.create" /\ proc[p].pc = "insert"
  /\ \/ /\ proc[p].fileId \in DOMAIN file
        /\ chat' = [c \in DOMAIN chat \cup {NewChatId(p)} |->
                      IF c \in DOMAIN chat THEN chat[c]
                      ELSE [userId |-> proc[p].userId, fileId |-> proc[p].fileId,
                            openaiThreadId |-> proc[p].chatRecord.openaiThreadId,
                            title |-> <<>>]]
        /\ titleWrites' = [c \in DOMAIN titleWrites \cup {NewChatId(p)} |->
                             IF c \in DOMAIN titleWrites THEN titleWrites[c] ELSE {}]
        /\ Returns(p, [proc[p] EXCEPT !.chatId = NewChatId(p)])
        /\ UNCHANGED <<file, chatMessage, thread, uploads, runs, cachedAssistantId,
                       sse, steps, faults, streamed>>
     \/ Fails(p, DbError)
     \/ proc[p].fileId \notin DOMAIN file /\ ForeignKeyFails(p)
  /\ UNCHANGED <<client, hook, storage>>

\* ---- chat.get
chatGet(p) ==
  /\ Arrives(p)
  /\ \E session \in Users \cup {NoSession}, chatId \in ChatIds :
       Request(p, session, chatId # "", "select",
               [proc[p] EXCEPT !.kind = "chat.get", !.session = session, !.chatId = chatId])
  /\ Quiet
  /\ UNCHANGED <<client, hook, storage>>

\* the chat joined with its file (innerJoin), for this user
CG_select(p) ==
  /\ proc[p].kind = "chat.get" /\ proc[p].pc = "select"
  /\ \/ /\ IF OwnChat(proc[p].chatId, proc[p].userId)
                /\ chat[proc[p].chatId].fileId \in DOMAIN file
             THEN proc' = [proc EXCEPT ![p].pc = "messages",
                             ![p].output.title = chat[proc[p].chatId].title,
                             ![p].output.name = file[chat[proc[p].chatId].fileId].name]
             ELSE Rejects(p, "NOT_FOUND", "Chat not found")
        /\ Quiet
     \/ Fails(p, DbError)
  /\ UNCHANGED <<client, hook, storage>>

\* the chat's messages (by their ids)
CG_messages(p) ==
  /\ proc[p].kind = "chat.get" /\ proc[p].pc = "messages"
  /\ \/ /\ Returns(p, [proc[p] EXCEPT !.output.messages = MessagesOf(proc[p].chatId)])
        /\ Quiet
     \/ Fails(p, DbError)
  /\ UNCHANGED <<client, hook, storage>>

\* ---- chat.delete: one delete ... where id and userId ... returning
chatDelete(p) ==
  /\ Arrives(p)
  /\ \E session \in Users \cup {NoSession}, chatId \in ChatIds :
       Request(p, session, chatId # "", "delete",
               [proc[p] EXCEPT !.kind = "chat.delete", !.session = session,
                               !.chatId = chatId])
  /\ Quiet
  /\ UNCHANGED <<client, hook, storage>>

CD_delete(p) ==
  /\ proc[p].kind = "chat.delete" /\ proc[p].pc = "delete"
  /\ \/ /\ IF OwnChat(proc[p].chatId, proc[p].userId)
             THEN /\ WithoutChats({proc[p].chatId})
                  /\ Returns(p, proc[p])
             ELSE /\ Rejects(p, "NOT_FOUND", "Chat not found")
                  /\ UNCHANGED <<chat, chatMessage>>
        /\ UNCHANGED <<file, thread, uploads, runs, cachedAssistantId, sse, steps,
                       titleWrites, faults, streamed>>
     \/ Fails(p, DbError)
  /\ UNCHANGED <<client, hook, storage>>

\* ---- chat.rename: one update ... where id and userId ... returning
chatRename(p) ==
  /\ Arrives(p)
  /\ \E session \in Users \cup {NoSession}, chatId \in ChatIds, title \in {<<>>, <<"n">>} :
       Request(p, session, chatId # "" /\ title # <<>>, "update",
               [proc[p] EXCEPT !.kind = "chat.rename", !.session = session,
                               !.chatId = chatId, !.question = title])
  /\ Quiet
  /\ UNCHANGED <<client, hook, storage>>

CR_update_AnyUser(p) ==
  /\ proc[p].kind = "chat.rename" /\ proc[p].pc = "update"
  /\ \/ /\ IF proc[p].chatId \in DOMAIN chat
             THEN /\ chat' = [chat EXCEPT ![proc[p].chatId].title = proc[p].question]
                  /\ Returns(p, proc[p])
             ELSE /\ Rejects(p, "NOT_FOUND", "Chat not found")
                  /\ UNCHANGED chat
        /\ UNCHANGED <<file, chatMessage, thread, uploads, runs, cachedAssistantId,
                       sse, steps, titleWrites, faults, streamed>>
     \/ Fails(p, DbError)
  /\ UNCHANGED <<client, hook, storage>>

CR_update(p) ==
  /\ proc[p].kind = "chat.rename" /\ proc[p].pc = "update"
  /\ \/ /\ IF OwnChat(proc[p].chatId, proc[p].userId)
             THEN /\ chat' = [chat EXCEPT ![proc[p].chatId].title = proc[p].question]
                  /\ Returns(p, proc[p])
             ELSE /\ Rejects(p, "NOT_FOUND", "Chat not found")
                  /\ UNCHANGED chat
        /\ UNCHANGED <<file, chatMessage, thread, uploads, runs, cachedAssistantId,
                       sse, steps, titleWrites, faults, streamed>>
     \/ Fails(p, DbError)
  /\ UNCHANGED <<client, hook, storage>>

chatRouter(p) ==
  \/ CC_select(p) \/ CC_threadsCreate(p) \/ CC_insert(p)
  \/ CG_select(p) \/ CG_messages(p) \/ CD_delete(p) \/ CR_update(p)

\* The routers together, on a bucket that holds the object of f1 or not (an
\* upload that was not completed).
InitRouters ==
  /\ InitServer /\ client = IdleClient /\ hook = NoHook
  /\ storage \in {{}, {"f1"}}

NextRouters ==
  \E p \in Procs :
    \/ PostChatStream(p) \/ streamQuestion(p)
    \/ syncFileToOpenAI(p) \/ syncFile(p)
    \/ askQuestion(p) \/ askQuestionResolver(p)
    \/ filesGet(p) \/ filesGetDownloadUrl(p) \/ confirmUpload(p) \/ filesDelete(p)
    \/ filesRename(p) \/ filesRouter(p)
    \/ chatCreate(p) \/ chatGet(p) \/ chatDelete(p) \/ chatRename(p) \/ chatRouter(p)

SpecRouters == InitRouters /\ [][NextRouters]_vars

\* -------------------------------------------------------- the question's length
\* One question, of any length up to one character more than the limit, asked
\* through the procedure or through the stream route.
QuestionOfLen(n) == [i \in 1..n |-> "q"]
AnyQuestions == {QuestionOfLen(n) : n \in {0, 1, QuestionMax, QuestionMax + 1}}

NextQuestion ==
  \/ PostChatStreamWith(1, AnyQuestions) \/ streamQuestion(1)
  \/ askQuestionWith(1, AnyQuestions) \/ askQuestionResolver(1)

SpecQuestion == Init /\ [][NextQuestion]_vars

\* ---------------------------------------------------------------- useHotkeys
\* HotkeyConfig: an absent ctrl, meta or shift is falsy (FALSE); enabled is
\* tested with === false, so an absent enabled is TRUE.
HotkeyConfigs == [key : {"A", "Escape"}, ctrl : BOOLEAN, meta : BOOLEAN,
                  shift : BOOLEAN, enabled : BOOLEAN]
RECURSIVE ArraysOf(_)
ArraysOf(n) ==
  IF n = 0 THEN {<<>>}
  ELSE LET shorter == ArraysOf(n - 1)
       IN shorter \cup {Append(hs, h) : hs \in {a \in shorter : Len(a) = n - 1},
                                        h \in HotkeyConfigs}
HotkeyArrays == ArraysOf(MaxHotkeys)
Targets == {[tagName |-> "DIV", isContentEditable |-> FALSE],
            [tagName |-> "INPUT", isContentEditable |-> FALSE],
            [tagName |-> "TEXTAREA", isContentEditable |-> FALSE],
            [tagName |-> "DIV", isContentEditable |-> TRUE]}
KeyboardEvents == [key : {"a", "Escape"}, ctrlKey : BOOLEAN, metaKey : BOOLEAN,
                   shiftKey : BOOLEAN, target : Targets]

\* String.prototype.toLowerCase on the keys in use
toLowerCase(k) ==
  CASE k = "A" -> "a" [] k = "Escape" -> "escape" [] k = "Enter" -> "enter" [] OTHER -> k

isInputFocused(target) ==
  target.tagName = "INPUT" \/ target.tagName = "TEXTAREA" \/ target.isContentEditable
keyMatch(hotkey, event) == toLowerCase(event.key) = toLowerCase(hotkey.key)
ctrlMatch(hotkey, event) ==
  IF hotkey.ctrl THEN event.ctrlKey \/ event.metaKey
  ELSE ~(event.ctrlKey \/ event.metaKey)
metaMatch(hotkey, event) == IF hotkey.meta THEN event.metaKey ELSE TRUE
shiftMatch(hotkey, event) == IF hotkey.shift THEN event.shiftKey ELSE ~event.shiftKey
needsModifier(hotkey) == hotkey.ctrl \/ hotkey.meta
isEscape(hotkey) == toLowerCase(hotkey.key) = "escape"

\* one pass of the loop body: TRUE when the hotkey's callback is called
Fires(hotkey, event) ==
  /\ hotkey.enabled # FALSE
  /\ ~(isInputFocused(event.target) /\ ~needsModifier(hotkey) /\ ~isEscape(hotkey))
  /\ keyMatch(hotkey, event) /\ ctrlMatch(hotkey, event)
  /\ metaMatch(hotkey, event) /\ shiftMatch(hotkey, event)

\* for (const hotkey of hotkeys) { ...; callback(event); break }: the callbacks
\* called, each as the array it belongs to and its index
RECURSIVE LoopFrom(_, _, _)
LoopFrom(hotkeys, event, i) ==
  IF i > Len(hotkeys) THEN <<>>
  ELSE IF Fires(hotkeys[i], event) THEN <<[hotkeys |-> hotkeys, index |-> i]>>
  ELSE LoopFrom(hotkeys, event, i + 1)
handleKeyDown(hotkeys, event) == LoopFrom(hotkeys, event, 1)

\* the effect's cleanup removes the listener the effect added
Cleanup_Keep(listeners) == listeners
Cleanup(listeners) == SubSeq(listeners, 1, Len(listeners) - 1)

\* document dispatches a keydown to its listeners in the order they were added
RECURSIVE Dispatch(_, _)
Dispatch(listeners, event) ==
  IF listeners = <<>> THEN <<>>
  ELSE handleKeyDown(Head(listeners), event) \o Dispatch(Tail(listeners), event)

\* the arrays a re-render passes: the array with one enabled flag changed, or
\* an array of one hotkey
Rerendered(hotkeys) ==
  {[hotkeys EXCEPT ![i].enabled = ~@] : i \in DOMAIN hotkeys}
  \cup {<<h>> : h \in HotkeyConfigs}

OnlyHook ==
  UNCHANGED <<chat, file, chatMessage, thread, uploads, runs, cachedAssistantId,
              proc, sse, steps, titleWrites, faults, streamed, client, storage>>

\* the first render: the effect adds its listener
HK_mount ==
  /\ ~hook.mounted /\ ~hook.unmounted
  /\ \E hotkeys \in HotkeyArrays :
       hook' = [hook EXCEPT !.mounted = TRUE, !.hotkeys = hotkeys,
                            !.listeners = Append(@, hotkeys),
                            !.event = NoEvent, !.called = <<>>]
  /\ OnlyHook

\* a re-render: with a new array (the dependency changed) the cleanup runs and
\* the effect runs again; with the same array nothing happens
HK_render ==
  /\ hook.mounted
  /\ \/ UNCHANGED hook
     \/ \E hotkeys \in Rerendered(hook.hotkeys) :
          hook' = [hook EXCEPT !.hotkeys = hotkeys,
                               !.listeners = Append(Cleanup(@), hotkeys),
                               !.event = NoEvent, !.called = <<>>,
                               !.rerendered = TRUE]
  /\ OnlyHook

HK_unmount ==
  /\ hook.mounted
  /\ hook' = [hook EXCEPT !.mounted = FALSE, !.hotkeys = <<>>, !.listeners = Cleanup(@),
                          !.event = NoEvent, !.called = <<>>, !.unmounted = TRUE]
  /\ OnlyHook

HK_keydown ==
  /\ \E event \in KeyboardEvents :
       hook' = [hook EXCEPT !.event = event, !.called = Dispatch(hook.listeners, event)]
  /\ OnlyHook

InitHotkeys == InitServer /\ client = IdleClient /\ hook = NoHook /\ storage = {"f1"}
NextHotkeys == HK_mount \/ HK_render \/ HK_unmount \/ HK_keydown
SpecHotkeys == InitHotkeys /\ [][NextHotkeys]_vars

\* ------------------------------------------------------------ the chat page
\* The response body: writeSSE frames an event as the lines "event: <type>" and
\* "data: <json>" and an empty line.  A unit of the body is a line prefix, the
\* rest of a line, or a line feed; JSON.stringify leaves no raw line feed in the
\* data, so the json of an event is one unit of one line.
LF == [kind |-> "lf"]
Frame(ev) ==
  << [kind |-> "event: "], [kind |-> "text", value |-> ev.type], LF,
     [kind |-> "data: "], [kind |-> "json", value |-> ev.data], LF, LF >>
RECURSIVE Body(_)
Body(evs) == IF evs = <<>> THEN <<>> ELSE Frame(Head(evs)) \o Body(Tail(evs))

\* buffer.split("\n")
RECURSIVE Split(_)
Split(buffer) ==
  LET lfs == {i \in DOMAIN buffer : buffer[i].kind = "lf"}
  IN IF lfs = {} THEN <<buffer>>
     ELSE LET i == CHOOSE j \in lfs : \A k \in lfs : j <= k
          IN <<SubSeq(buffer, 1, i - 1)>> \o Split(SubSeq(buffer, i + 1, Len(buffer)))

StartsWith(line, prefix) == line # <<>> /\ line[1].kind = prefix
\* line.slice(7): the event's name ("" when the line holds nothing more)
EventName(line) == IF Len(line) >= 2 THEN line[2].value ELSE ""
\* JSON.parse(line.slice(6))
ParsedData(line) == line[2].value

\* String.prototype.trim on the texts typed into the input
RECURSIVE Trim(_)
Trim(s) ==
  IF s = <<>> THEN s
  ELSE IF Head(s) = " " THEN Trim(Tail(s))
  ELSE IF s[Len(s)] = " " THEN Trim(SubSeq(s, 1, Len(s) - 1))
  ELSE s

\* the page before a step: the step has raised no toast and invalidated nothing yet
Fresh(cl) == [cl EXCEPT !.toast = "", !.invalidated = FALSE]

\* setPendingMessage(null); setStreamingContent(""); setIsStreaming(false)
ResetStream(cl) ==
  [cl EXCEPT !.pendingMessage = <<>>, !.streamingContent = <<>>, !.isStreaming = FALSE]

\* the branches on currentEvent in the callback of request p.  done with cached
\* chat data writes the cache and resets the page; without it the callback
\* awaits invalidateQueries first.  An error event is thrown and caught at the
\* end of the callback, which resets the page and shows the message.
HandleEvent(cl, p, currentEvent, data, question) ==
  LET seen == [cl EXCEPT !.call[p].handled = Append(@, [type |-> currentEvent, data |-> data])]
  IN CASE currentEvent = "status" -> [seen EXCEPT !.statusMessage = data.message]
       [] currentEvent = "delta" ->
            [seen EXCEPT !.statusMessage = "",
                         !.call[p].accumulatedContent = @ \o data.content,
                         !.streamingContent = cl.call[p].accumulatedContent \o data.content]
       [] currentEvent = "done" ->
            IF cl.cached
              THEN ResetStream([seen EXCEPT
                     !.call[p].receivedDone = TRUE,
                     !.cache = @ \o << [id |-> data.userMessageId, role |-> "user",
                                        content |-> question],
                                       [id |-> data.assistantMessageId, role |-> "assistant",
                                        content |-> cl.call[p].accumulatedContent] >>])
              ELSE [seen EXCEPT !.call[p].receivedDone = TRUE,
                                !.call[p].state = "invalidating"]
       [] currentEvent = "error" ->
            ResetStream([seen EXCEPT !.call[p].state = "returned", !.toast = data.message])
       [] OTHER -> cl

\* let currentEvent = null; for (const line of lines) { ... }; a callback that
\* awaits invalidateQueries keeps the lines it has not looked at yet
RECURSIVE HandleLines(_, _, _, _, _)
HandleLines(lines, currentEvent, cl, p, question) ==
  IF lines = <<>> \/ cl.call[p].state = "returned" THEN cl
  ELSE IF cl.call[p].state = "invalidating" THEN [cl EXCEPT !.call[p].lines = lines]
  ELSE LET line == Head(lines)
       IN IF StartsWith(line, "event: ")
            THEN HandleLines(Tail(lines), EventName(line), cl, p, question)
          ELSE IF StartsWith(line, "data: ") /\ currentEvent # ""
            THEN HandleLines(Tail(lines), "",
                             HandleEvent(cl, p, currentEvent, ParsedData(line), question),
                             p, question)
          ELSE HandleLines(Tail(lines), currentEvent, cl, p, question)

\* one pass of the read loop over a chunk the reader returned
ReadChunk(cl, p, chunk, question) ==
  LET lines == Split(cl.call[p].buffer \o chunk)
      rest == [cl EXCEPT !.call[p].buffer = lines[Len(lines)],
                         !.call[p].read = @ + Len(chunk)]
  IN HandleLines(SubSeq(lines, 1, Len(lines) - 1), "", rest, p, question)

ServerUnchanged ==
  UNCHANGED <<chat, file, chatMessage, thread, uploads, runs, cachedAssistantId,
              proc, sse, steps, titleWrites, faults, streamed, hook, storage>>

\* the page's requests are numbered in the order it makes them
Unsent(cl) == {p \in DOMAIN cl.call : cl.call[p].state = "idle"}
NextRequest(cl) == CHOOSE p \in Unsent(cl) : \A q \in Unsent(cl) : p <= q

\* handleSubmit, and the streamQuestion callback up to its fetch
handleSubmit(cl) ==
  LET canSubmit == Trim(cl.input) # <<>> /\ ~cl.isStreaming
      p == NextRequest(cl)
  IN IF ~canSubmit \/ Unsent(cl) = {} THEN cl
     ELSE [cl EXCEPT !.input = <<>>, !.pendingMessage = Trim(cl.input),
                     !.isStreaming = TRUE, !.streamingContent = <<>>,
                     !.statusMessage = "Connecting...",
                     !.controller = p, !.call[p].state = "fetching"]

\* cancelStreaming: abortControllerRef.current is the controller of the last
\* request made.  The abort rejects that callback's pending fetch or read with
\* an AbortError, on which the callback returns; a callback that awaits
\* invalidateQueries goes on.
cancelStreaming(cl) ==
  LET c == cl.controller
      pending == c # 0 /\ cl.call[c].state \in {"fetching", "reading"}
      aborted == IF c = 0 THEN cl
                 ELSE [cl EXCEPT !.aborted = @ \cup {c},
                                 !.call[c].state = IF pending THEN "returned" ELSE @]
  IN IF cl.isStreaming THEN ResetStream([aborted EXCEPT !.toast = "Cancelled"])
     ELSE cl

\* <Input disabled={isStreaming}>, <Button disabled={!input.trim() || isStreaming}>
InputDisabled(cl) == cl.isStreaming
ButtonDisabled(cl) == Trim(cl.input) = <<>> \/ cl.isStreaming

\* the array the page passes to useHotkeys
PageHotkeys(cl) ==
  << [key |-> "Enter", ctrl |-> TRUE, meta |-> FALSE, shift |-> FALSE,
      enabled |-> (Trim(cl.input) # <<>> /\ ~cl.isStreaming)],
     [key |-> "Escape", ctrl |-> FALSE, meta |-> FALSE, shift |-> FALSE,
      enabled |-> cl.isStreaming] >>

\* the keys pressed on the page: Ctrl+Enter and Escape, in the input when it
\* is not disabled and elsewhere
PageKeys(cl) ==
  {[key |-> k, ctrlKey |-> (k = "Enter"), metaKey |-> FALSE, shiftKey |-> FALSE,
    target |-> [tagName |-> t, isContentEditable |-> FALSE]] :
     k \in {"Enter", "Escape"},
     t \in IF InputDisabled(cl) THEN {"DIV"} ELSE {"DIV", "INPUT"}}

\* onChange of the input: the text of the next question, or a blank
CP_type ==
  /\ ~InputDisabled(client) /\ Unsent(client) # {}
  /\ \E text \in {<<>>, <<" ">>, Question(NextRequest(client))} :
       /\ text # client.input
       /\ client' = [Fresh(client) EXCEPT !.input = text]
  /\ ServerUnchanged

\* the form's onSubmit, from a click on the send button or Enter in the input
CP_submit ==
  /\ \/ ~ButtonDisabled(client)
     \/ ~InputDisabled(client)
  /\ client' = handleSubmit(Fresh(client))
  /\ ServerUnchanged

\* a keydown reaches the listener of useHotkeys, which calls handleSubmit for
\* Ctrl+Enter and cancelStreaming for Escape
CP_keydown ==
  /\ \E event \in PageKeys(client) :
       LET called == handleKeyDown(PageHotkeys(client), event)
       IN client' = IF called = <<>> THEN Fresh(client)
                    ELSE IF called[1].index = 1 THEN handleSubmit(Fresh(client))
                    ELSE cancelStreaming(Fresh(client))
  /\ ServerUnchanged

\* the fetch resolves: if (!response.ok) throw new Error("Failed to start stream")
CP_response(p) ==
  /\ client.call[p].state = "fetching" /\ proc[p].status # 0
  /\ client' = IF proc[p].status = 200
                 THEN [Fresh(client) EXCEPT !.call[p].state = "reading"]
               ELSE ResetStream([Fresh(client) EXCEPT !.call[p].state = "returned",
                                               !.toast = "Failed to start stream"])
  /\ ServerUnchanged

\* the fetch rejects (the network failed): the catch resets the page
CP_fetchFails(p) ==
  /\ client.call[p].state = "fetching"
  /\ client' = ResetStream([Fresh(client) EXCEPT !.call[p].state = "returned",
                                                 !.toast = "Failed to fetch"])
  /\ ServerUnchanged

\* reader.read() returns the next chunk: any non-empty part of what the server
\* has written and the page has not read yet
CP_read(p) ==
  /\ client.call[p].state = "reading"
  /\ LET body == Body(sse[p])
         read == client.call[p].read
     IN \E n \in 1..(Len(body) - read) :
          client' = ReadChunk(Fresh(client), p, SubSeq(body, read + 1, read + n),
                              proc[p].question)
  /\ ServerUnchanged

\* reader.read() returns done: the response has ended; if (!receivedDone) { ... }
CP_readDone_NoReset(p) ==
  /\ client.call[p].state = "reading"
  /\ proc[p].pc = "closed" /\ client.call[p].read = Len(Body(sse[p]))
  /\ client' = [Fresh(client) EXCEPT !.call[p].state = "returned"]
  /\ ServerUnchanged

CP_readDone(p) ==
  /\ client.call[p].state = "reading"
  /\ proc[p].pc = "closed" /\ client.call[p].read = Len(Body(sse[p]))
  /\ client' = IF client.call[p].receivedDone
                 THEN [Fresh(client) EXCEPT !.call[p].state = "returned"]
               ELSE ResetStream([Fresh(client) EXCEPT !.call[p].state = "returned",
                                                      !.invalidated = TRUE])
  /\ ServerUnchanged

\* await queryClient.invalidateQueries resolves: the callback resets the page,
\* goes through the lines left and reads on, which rejects when its request
\* has been aborted
CP_invalidated(p) ==
  /\ client.call[p].state = "invalidating"
  /\ LET reset == ResetStream([Fresh(client) EXCEPT !.invalidated = TRUE,
                                             !.call[p].state = "reading",
                                             !.call[p].lines = <<>>])
         after == HandleLines(client.call[p].lines, "", reset, p, proc[p].question)
     IN client' = IF p \in client.aborted /\ after.call[p].state = "reading"
                    THEN [after EXCEPT !.call[p].state = "returned"]
                  ELSE after
  /\ ServerUnchanged

\* the page with one request
InitClient ==
  /\ InitServer /\ hook = NoHook /\ storage = {"f1"}
  /\ \E cached \in BOOLEAN : client = [IdleClient EXCEPT !.cached = cached]

NextClient ==
  \/ (client.call[1].state = "idle" /\ (CP_type \/ CP_submit))
  \/ CP_response(1) \/ CP_read(1) \/ CP_readDone(1) \/ CP_invalidated(1)
  \/ (client.call[1].state = "fetching" /\ PostChatStream(1))
  \/ streamQuestion(1)

SpecClient == InitClient /\ [][NextClient]_vars

\* ---------------------------------------- the page and the responses it reads
\* What the page can see of POST /api/chat/stream: a status, then for a 200 the
\* events the handler writes one at a time, the last of them done or error, on
\* which the response ends; the connection may also drop before that.
PageProcs == 1..MaxStreams
Reading(p) == client.call[p].state \in {"fetching", "reading", "invalidating"}
OnlyResponse ==
  UNCHANGED <<chat, file, chatMessage, thread, uploads, runs, cachedAssistantId,
              steps, titleWrites, faults, streamed, client, hook, storage>>

\* the request arrives: 401, 400 or the SSE response
RS_status(p) ==
  /\ client.call[p].state = "fetching" /\ proc[p].pc = "idle"
  /\ \E status \in {200, 400, 401} :
       proc' = [proc EXCEPT ![p].kind = "stream", ![p].status = status,
                            ![p].question = Question(p),
                            ![p].pc = IF status = 200 THEN "open" ELSE "closed"]
  /\ UNCHANGED sse
  /\ OnlyResponse

\* stream.writeSSE of a status or delta event
RS_write(p) ==
  /\ Reading(p) /\ proc[p].pc = "open" /\ Len(sse[p]) < MaxEvents
  /\ \E ev \in {StatusEvent("Generating response..."), DeltaEvent(<<"x">>)} :
       writeSSE(p, ev)
  /\ UNCHANGED proc
  /\ OnlyResponse

\* stream.writeSSE of the terminal event, after which the response ends
RS_end(p) ==
  /\ Reading(p) /\ proc[p].pc = "open"
  /\ \E ev \in {DoneEvent(1, 2), ErrorEvent("Assistant run failed")} : writeSSE(p, ev)
  /\ Goto(p, "closed")
  /\ OnlyResponse

\* the connection drops
RS_drop(p) ==
  /\ Reading(p) /\ proc[p].pc = "open"
  /\ Goto(p, "closed")
  /\ UNCHANGED sse
  /\ OnlyResponse

\* Nothing refers to the locals of a callback that has returned, nor to the
\* response it read.
ReturnedCall == [IdleCall EXCEPT !.state = "returned"]
GoneProc == [IdleProc EXCEPT !.pc = "closed"]
Garbage ==
  {p \in PageProcs : /\ client.call[p].state = "returned"
                     /\ ~(client.call[p] = ReturnedCall /\ proc[p] = GoneProc
                          /\ sse[p] = <<>> /\ p \notin client.aborted)}
Forget(p) ==
  /\ p \in Garbage
  /\ client' = [client EXCEPT !.call[p] = ReturnedCall, !.aborted = @ \ {p}]
  /\ proc' = [proc EXCEPT ![p] = GoneProc]
  /\ sse' = [sse EXCEPT ![p] = <<>>]
  /\ UNCHANGED <<chat, file, chatMessage, thread, uploads, runs, cachedAssistantId,
                 steps, titleWrites, faults, streamed, hook, storage>>

\* The page that has made MaxStreams - n requests, which have returned, and
\* has n more to make.
InitPageOf(n) ==
  /\ chat = InitChat /\ file = InitFile /\ chatMessage = <<>>
  /\ thread = [t \in {"t1"} |-> <<>>]
  /\ uploads = <<>> /\ runs = {} /\ cachedAssistantId = 0
  /\ proc = [p \in PageProcs |-> IF p <= MaxStreams - n THEN GoneProc ELSE IdleProc]
  /\ sse = [p \in PageProcs |-> <<>>]
  /\ steps = [p \in PageProcs |-> <<>>]
  /\ titleWrites = [c \in {"c1"} |-> {}]
  /\ faults = 0 /\ streamed = 0
  /\ hook = NoHook /\ storage = {"f1"}
  /\ \E cached \in BOOLEAN :
       client = [IdleClient EXCEPT
                   !.cached = cached,
                   !.statusMessage = IF n < MaxStreams THEN "Connecting..." ELSE "",
                   !.controller = IF n < MaxStreams THEN MaxStreams - n ELSE 0,
                   !.call = [p \in PageProcs |->
                               IF p <= MaxStreams - n THEN ReturnedCall ELSE IdleCall]]
InitPage == InitPageOf(MaxStreams)
InitPageFair == InitPageOf(LiveStreams)

\* what the event loop and the network do without the user
PageProgress ==
  \E p \in PageProcs :
    \/ CP_response(p) \/ CP_fetchFails(p) \/ CP_read(p) \/ CP_readDone(p)
    \/ CP_invalidated(p)
    \/ RS_status(p) \/ RS_write(p) \/ RS_end(p) \/ RS_drop(p)

\* garbage is dropped before anything else happens
Tidy == Garbage = {}
PageAuto == (\E p \in PageProcs : Forget(p)) \/ (Tidy /\ PageProgress)
NextPage ==
  \/ \E p \in PageProcs : Forget(p)
  \/ (Tidy /\ CP_type)
  \/ (Tidy /\ CP_submit)
  \/ (Tidy /\ CP_keydown)
  \/ \E p \in PageProcs :
       \/ (Tidy /\ CP_response(p)) \/ (Tidy /\ CP_fetchFails(p))
       \/ (Tidy /\ CP_read(p)) \/ (Tidy /\ CP_readDone(p))
       \/ (Tidy /\ CP_invalidated(p))
       \/ (Tidy /\ RS_status(p)) \/ (Tidy /\ RS_write(p))
       \/ (Tidy /\ RS_end(p)) \/ (Tidy /\ RS_drop(p))

SpecPage == InitPage /\ [][NextPage]_vars
\* the event loop runs the continuations that are ready and the network
\* delivers what was sent
SpecPageFair == InitPageFair /\ [][NextPage]_vars /\ WF_vars(PageAuto)

\* ---------------------------------------------------------------- chat.search
MaxPerChat == 10    \* messages of one chat in the database that is searched
MaxLimit == 2       \* the largest limit a search is called with
SearchQueryMax == 500
SearchLimitMax == 50
MessagesPerChat == 5

\* Text is a sequence of characters.  ILIKE compares case-insensitively.
Lower(ch) == CASE ch = "A" -> "a" [] ch = "B" -> "b" [] OTHER -> ch

\* String.prototype.replace(/ch/g, rep)
RECURSIVE ReplaceAll(_, _, _)
ReplaceAll(s, ch, rep) ==
  IF s = <<>> THEN <<>>
  ELSE (IF Head(s) = ch THEN rep ELSE <<Head(s)>>) \o ReplaceAll(Tail(s), ch, rep)

\* .replace(/\\/g, "\\\\").replace(/%/g, "\\%").replace(/_/g, "\\_")
sanitizedQuery(query) ==
  ReplaceAll(ReplaceAll(ReplaceAll(query, "\\", <<"\\", "\\">>), "%", <<"\\", "%">>),
             "_", <<"\\", "_">>)

\* PostgreSQL: s ILIKE pattern, with % any text, _ any one character and the
\* default escape character \ taking the next character literally.
RECURSIVE Like(_, _)
Like(s, pattern) ==
  IF pattern = <<>> THEN s = <<>>
  ELSE IF Head(pattern) = "%"
    THEN Like(s, Tail(pattern)) \/ (s # <<>> /\ Like(Tail(s), pattern))
  ELSE IF Head(pattern) = "_"
    THEN s # <<>> /\ Like(Tail(s), Tail(pattern))
  ELSE IF Head(pattern) = "\\"
    THEN /\ Len(pattern) >= 2 /\ s # <<>>
         /\ Lower(Head(s)) = Lower(pattern[2])
         /\ Like(Tail(s), Tail(Tail(pattern)))
  ELSE s # <<>> /\ Lower(Head(s)) = Lower(Head(pattern)) /\ Like(Tail(s), Tail(pattern))

\* ilike(column, `%${sanitizedQuery}%`); a null column never matches
ilike(column, query) ==
  column # <<>> /\ Like(column, <<"%">> \o sanitizedQuery(query) \o <<"%">>)

\* the rows of chatMessage innerJoin chat that the where clause keeps
SearchWhere(i, fileId, userId, query) ==
  LET c == chatMessage[i].chatId
  IN /\ c \in DOMAIN chat
     /\ chat[c].fileId = fileId /\ chat[c].userId = userId
     /\ (ilike(chatMessage[i].content, query) \/ ilike(chat[c].title, query))

\* orderBy(desc(chat.updatedAt), desc(chatMessage.createdAt)): row i comes
\* before row j.  Messages are created in the order of their ids.
SearchBefore(i, j) ==
  LET ui == chat[chatMessage[i].chatId].updatedAt
      uj == chat[chatMessage[j].chatId].updatedAt
  IN ui > uj \/ (ui = uj /\ i > j)

\* the rows of S in that order
RECURSIVE SearchOrdered(_)
SearchOrdered(S) ==
  IF S = {} THEN <<>>
  ELSE LET first == CHOOSE i \in S : \A j \in S \ {i} : SearchBefore(i, j)
       IN <<first>> \o SearchOrdered(S \ {first})

\* .limit(n)
Limit(rows, n) == SubSeq(rows, 1, IF Len(rows) < n THEN Len(rows) ELSE n)

\* the select of chat.search: the ids of the rows, in order, input.limit * 5 at most
SearchRows(fileId, userId, query, limit) ==
  Limit(SearchOrdered({i \in DOMAIN chatMessage : SearchWhere(i, fileId, userId, query)}),
        limit * MessagesPerChat)

\* for (const msg of matchingMessages): chatMap in insertion order, each entry
\* with the first five rows of its chat
RECURSIVE GroupByChat(_, _)
GroupByChat(rows, chatMap) ==
  IF rows = <<>> THEN chatMap
  ELSE LET msg == chatMessage[Head(rows)]
           has == \E k \in DOMAIN chatMap : chatMap[k].id = msg.chatId
           withEntry == IF has THEN chatMap
                        ELSE Append(chatMap, [id |-> msg.chatId,
                                              title |-> chat[msg.chatId].title,
                                              updatedAt |-> chat[msg.chatId].updatedAt,
                                              matchingMessages |-> <<>>])
           k == CHOOSE n \in DOMAIN withEntry : withEntry[n].id = msg.chatId
           pushed == IF Len(withEntry[k].matchingMessages) < MessagesPerChat
                       THEN [withEntry EXCEPT ![k].matchingMessages =
                               Append(@, [id |-> msg.id, role |-> msg.role,
                                          content |-> msg.content])]
                       ELSE withEntry
       IN GroupByChat(Tail(rows), pushed)

\* input: fileId uuid, query z.string().min(1).max(500), limit int 1..50
ValidSearchInput(fileId, query, limit) ==
  /\ fileId # ""
  /\ Len(query) >= 1 /\ Len(query) <= SearchQueryMax
  /\ limit >= 1 /\ limit <= SearchLimitMax

\* what the page and other callers search for; <<>> and 0 are rejected
SearchQueries == {<<>>, <<"a">>, <<"%">>, <<"_">>, <<"\\">>, <<"b", "%">>}
SearchLimits == 0..MaxLimit

chatSearch(p) ==
  /\ Arrives(p)
  /\ \E session \in Users \cup {NoSession}, fileId \in {"", "f1", "f2"},
        query \in SearchQueries, limit \in SearchLimits :
       Request(p, session, ValidSearchInput(fileId, query, limit), "select",
               [query |-> query, limit |-> limit] @@
               [proc[p] EXCEPT !.kind = "chat.search", !.session = session,
                               !.fileId = fileId])
  /\ Quiet
  /\ UNCHANGED <<client, hook, storage>>

\* the one query, then the grouping and the slice
CS_search(p) ==
  /\ proc[p].kind = "chat.search" /\ proc[p].pc = "select"
  /\ \/ /\ LET matchingMessages ==
                 SearchRows(proc[p].fileId, proc[p].userId, proc[p].query, proc[p].limit)
           IN Returns(p, [proc[p] EXCEPT !.output =
                 [chats |-> Limit(GroupByChat(matchingMessages, <<>>), proc[p].limit)]])
        /\ Quiet
     \/ Fails(p, DbError)
  /\ UNCHANGED <<client, hook, storage>>

\* The database that is searched: three chats, c1 and c2 of u1 on f1, c3 of u1
\* on f1 or f2 or of u2 on f3, updated in any of three orders; a chat has no
\* title yet or one; c1 and c2 hold no message, one, or MaxPerChat, questions
\* and answers in turn, c3 one question.  The server has just started.
SearchChatIds == {"c1", "c2", "c3"}
SearchTitles == {<<>>, <<"a", "%">>}
SearchCounts == {0, 1, MaxPerChat}
Exchanges == {<<<<"A", "b">>, <<"b", "a">>>>, <<<<"b">>, <<"_", "B">>>>, <<<<"\\">>, <<"b", "%">>>>}
SearchOrders == {[c \in SearchChatIds |-> 1 + ((k + (IF c = "c1" THEN 0 ELSE IF c = "c2" THEN 1 ELSE 2)) % 3)] :
                   k \in 0..2}
MessagesOfChat(c, n, ex, offset) ==
  [i \in 1..n |-> [id |-> offset + i, chatId |-> c,
                   role |-> IF i % 2 = 1 THEN "user" ELSE "assistant",
                   content |-> IF i % 2 = 1 THEN ex[1] ELSE ex[2]]]

InitSearch ==
  /\ \E owner \in {<<"u1", "f1">>, <<"u1", "f2">>, <<"u2", "f3">>},
        updatedAt \in SearchOrders, title1 \in SearchTitles, title \in SearchTitles,
        n1 \in SearchCounts, n2 \in SearchCounts, ex \in Exchanges :
       /\ chat = [c \in SearchChatIds |->
                    [userId |-> IF c = "c3" THEN owner[1] ELSE "u1",
                     fileId |-> IF c = "c3" THEN owner[2] ELSE "f1",
                     openaiThreadId |-> IF c = "c1" THEN "t1" ELSE IF c = "c2" THEN "t2" ELSE "t3",
                     title |-> IF c = "c1" THEN title1 ELSE title,
                     updatedAt |-> updatedAt[c]]]
       /\ chatMessage = MessagesOfChat("c1", n1, ex, 0) \o MessagesOfChat("c2", n2, ex, n1)
                          \o MessagesOfChat("c3", 1, ex, n1 + n2)
  /\ file = [f \in {"f1", "f2", "f3"} |->
               [userId |-> IF f = "f3" THEN "u2" ELSE "u1", openaiFileId |-> 0,
                name |-> "report.pdf"]]
  /\ thread = [t \in {"t1", "t2", "t3"} |-> <<>>]
  /\ uploads = <<>> /\ runs = {} /\ cachedAssistantId = 0
  /\ proc = [p \in Procs |-> IdleProc]
  /\ sse = [p \in Procs |-> <<>>]
  /\ steps = [p \in Procs |-> <<>>]
  /\ titleWrites = [c \in SearchChatIds |-> {}]
  /\ faults = 0 /\ streamed = 0
  /\ client = IdleClient /\ hook = NoHook /\ storage = {"f1", "f2", "f3"}

NextSearch == chatSearch(1) \/ CS_search(1)

SpecSearch == InitSearch /\ [][NextSearch]_vars

\* ================================================================ properties
Streams == {p \in Procs : proc[p].kind = "stream" /\ proc[p].status = 200}
HasEvent(p, t) == \E i \in DOMAIN sse[p] : sse[p][i].type = t
IsTerminal(ev) == ev.type \in {"done", "error"}
Row(id) == chatMessage[id]
Persisted(id, role) == id \in DOMAIN chatMessage /\ Row(id).role = role
IsIn(name, S) == name \in S
Only(seq, S) == SelectSeq(seq, LAMBDA x : IsIn(x, S))
ListedSteps == {"chatLookup", "fileLookup", "filesCreate", "insertUser",
                "messagesCreate", "runStream", "insertAssistant", "done"}

\* C1: a streamQuestion execution that emits done completed, in this order, the
\* chat lookup, the file lookup, the provider upload (exactly when the file it
\* read had no openaiFileId), the user-message insert, the thread-message
\* create, the run stream, the assistant-message insert and done; whenever done
\* has been emitted its assistant message is in the table, and whenever a delta
\* has been emitted the user message is.
C1_StepOrder ==
  \A p \in Streams :
    /\ HasEvent(p, "done") =>
         /\ Only(steps[p], ListedSteps) =
              <<"chatLookup", "fileLookup">>
              \o (IF proc[p].fileRecord.openaiFileId = 0 THEN <<"filesCreate">> ELSE <<>>)
              \o <<"insertUser", "messagesCreate", "runStream", "insertAssistant", "done">>
         /\ Persisted(proc[p].assistantMessageId, "assistant")
         /\ sse[p][Len(sse[p])].data.assistantMessageId = proc[p].assistantMessageId
    /\ HasEvent(p, "delta") =>
         /\ Persisted(proc[p].userMessageId, "user")
         /\ Row(proc[p].userMessageId).content = proc[p].question

C1_Witness ==
  \E p, q \in Streams :
    /\ HasEvent(p, "done") /\ "filesCreate" \in {steps[p][i] : i \in DOMAIN steps[p]}
    /\ HasEvent(q, "done") /\ "filesCreate" \notin {steps[q][i] : i \in DOMAIN steps[q]}

\* C2: an SSE response holds at most one terminal event (done or error) and
\* nothing after it; it stays open until its terminal event is written and is
\* closed by it; and when an await of streamQuestion threw, the terminal event
\* is an error carrying the thrown error's message.
C2_OneTerminalEvent ==
  \A p \in Streams :
    /\ \A i \in DOMAIN sse[p] : IsTerminal(sse[p][i]) => i = Len(sse[p])
    /\ proc[p].pc = "closed" <=> (sse[p] # <<>> /\ IsTerminal(sse[p][Len(sse[p])]))
    /\ proc[p].caught # "" =>
         /\ proc[p].pc = "closed"
         /\ sse[p][Len(sse[p])] = ErrorEvent(proc[p].caught)

C2_Witness ==
  /\ \E p \in Streams : proc[p].caught = "db error" /\ Len(sse[p]) >= 3
  /\ \E p \in Streams : proc[p].pc = "closed" /\ HasEvent(p, "done")

\* C3: the title of a chat is written by at most one request.
C3_TitleWrittenOnce == \A c \in DOMAIN titleWrites : Cardinality(titleWrites[c]) <= 1

\* C4: every run was started on a thread that held a message with the file
\* attachment.
C4_RunsOnSeededThread == \A r \in runs : r.seeded

\* C5: at most one message of a thread carries the file attachment.
C5_OneAttachment ==
  \A t \in DOMAIN thread :
    Cardinality({i \in DOMAIN thread[t] : HasAttachment(thread[t][i])}) <= 1

C5_Witness ==
  \E t \in DOMAIN thread :
    /\ Cardinality({i \in DOMAIN thread[t] : thread[t][i].role = "user"}) >= 2
    /\ \E i \in DOMAIN thread[t] : HasAttachment(thread[t][i])
    /\ \E p, q \in Procs : proc[p].kind = "stream" /\ proc[q].kind = "ask"
                           /\ proc[p].pc = "closed" /\ proc[q].pc = "closed"
                           /\ proc[p].userMessageId # 0 /\ proc[q].userMessageId # 0

RECURSIVE DeltaText(_)
DeltaText(evs) ==
  IF evs = <<>> THEN <<>>
  ELSE (IF Head(evs).type = "delta" THEN Head(evs).data.content ELSE <<>>)
       \o DeltaText(Tail(evs))
AssistantRows == {i \in DOMAIN chatMessage : chatMessage[i].role = "assistant"}

\* C7: when done has been emitted, the persisted assistant message holds the
\* in-order concatenation of the emitted deltas, which is not empty; a response
\* that ended without any delta ended with error, and its request inserted no
\* assistant message.
C7_ContentIsDeltas ==
  /\ \A p \in Streams :
       /\ HasEvent(p, "done") =>
            /\ Persisted(proc[p].assistantMessageId, "assistant")
            /\ Row(proc[p].assistantMessageId).content = DeltaText(sse[p])
            /\ DeltaText(sse[p]) # <<>>
       /\ (proc[p].pc = "closed" /\ DeltaText(sse[p]) = <<>>) =>
            /\ sse[p][Len(sse[p])].type = "error"
            /\ proc[p].assistantMessageId = 0
  /\ Cardinality(AssistantRows) = Cardinality({p \in Procs : proc[p].assistantMessageId # 0})

C7_Witness ==
  \E p \in Streams :
    /\ HasEvent(p, "done")
    /\ DeltaText(sse[p]) = <<"x", "y">>
    /\ Row(proc[p].assistantMessageId).content = <<"x", "y">>

\* C8: openai.files.create is called at most once for a file.
C8_UploadedOnce == \A f \in DOMAIN file : Cardinality(UploadsOf(f)) <= 1

Protected == {p \in Procs : proc[p].kind \in {"privateData", "ask", "sync"}}
Public == {p \in Procs : proc[p].kind = "healthCheck"}

StreamRequests == {p \in Procs : proc[p].kind = "stream"}
Rejected(p) == proc[p].status \in {400, 401}

\* C10: POST /api/chat/stream answers 401 without a session and, with one, 400
\* when chatId or question is missing or empty; such a request never starts
\* streamQuestion and writes no event, and while only such requests have been
\* made no row has been written and no provider call made.
C10_RejectedRequests ==
  /\ \A p \in StreamRequests :
       /\ proc[p].session = NoSession => proc[p].status = 401
       /\ (proc[p].session # NoSession /\ (proc[p].chatId = "" \/ proc[p].question = <<>>))
            => proc[p].status = 400
       /\ Rejected(p) =>
            ~proc[p].ran /\ proc[p].pc = "closed" /\ sse[p] = <<>> /\ steps[p] = <<>>
  /\ (\A p \in Procs : proc[p].pc = "idle" \/ (p \in StreamRequests /\ Rejected(p))) =>
       /\ chat = InitChat /\ file = InitFile /\ chatMessage = <<>>
       /\ uploads = <<>> /\ runs = {} /\ cachedAssistantId = 0
       /\ \A t \in DOMAIN thread : thread[t] = <<>>

C10_Witness ==
  \E p, q \in StreamRequests :
    /\ proc[p].status = 401
    /\ proc[q].status = 400 /\ proc[q].chatId = "c1" /\ proc[q].question = <<>>

PageReturned ==
  client.call[1].state = "returned" /\ proc[1].kind = "stream" /\ proc[1].status = 200

\* C6: however the response body is cut into chunks, the page has handled every
\* event the server wrote, in order, when its read loop has ended, and the
\* assistant content it wrote to the query cache on done is the content the
\* server persisted.
C6_PageHandlesEveryEvent ==
  /\ PageReturned => client.call[1].handled = sse[1]
  /\ (client.call[1].receivedDone /\ client.cached) =>
       /\ Persisted(proc[1].assistantMessageId, "assistant")
       /\ client.cache[Len(client.cache)].content = Row(proc[1].assistantMessageId).content

\* ---------------------------------------------------------------- useHotkeys
KeyDispatched == hook.mounted /\ hook.event # NoEvent
Called(i) ==
  \E k \in DOMAIN hook.called :
    hook.called[k].hotkeys = hook.hotkeys /\ hook.called[k].index = i
\* the hotkey is not disabled, the key is the hotkey's key ignoring case, ctrl or
\* meta is held exactly when hotkey.ctrl is set and shift exactly when
\* hotkey.shift is set
Matches(hotkey, event) ==
  /\ hotkey.enabled # FALSE
  /\ toLowerCase(event.key) = toLowerCase(hotkey.key)
  /\ (event.ctrlKey \/ event.metaKey) <=> hotkey.ctrl
  /\ event.shiftKey <=> hotkey.shift

\* C11: for a keydown whose target is not an input, a textarea or a
\* contentEditable element, the callback of a hotkey is called if and only if
\* the hotkey is not disabled, the key matches ignoring case, ctrl or meta is
\* held exactly when hotkey.ctrl is set, and shift is held exactly when
\* hotkey.shift is set.
C11_CalledIffMatches ==
  (KeyDispatched /\ ~isInputFocused(hook.event.target)) =>
    \A i \in DOMAIN hook.hotkeys : Called(i) <=> Matches(hook.hotkeys[i], hook.event)

\* C12: for a keydown whose target is an input, a textarea or a contentEditable
\* element, an enabled Escape hotkey whose modifiers match is called, and a
\* hotkey that is not Escape and needs neither ctrl nor meta is not called.
C12_EscapeInInput ==
  (KeyDispatched /\ isInputFocused(hook.event.target)) =>
    \A i \in DOMAIN hook.hotkeys :
      LET hotkey == hook.hotkeys[i]
      IN /\ (toLowerCase(hotkey.key) = "escape" /\ Matches(hotkey, hook.event)) => Called(i)
         /\ (toLowerCase(hotkey.key) # "escape" /\ ~hotkey.ctrl /\ ~hotkey.meta) => ~Called(i)

\* C13: document holds at most one keydown listener of the component: the one
\* of the latest hotkeys array while the component is mounted, none before the
\* mount and after the unmount; a keydown after the unmount calls nothing, and
\* a keydown calls at most one callback, an enabled hotkey of the latest array.
C13_OneListener ==
  /\ Len(hook.listeners) <= 1
  /\ hook.mounted => hook.listeners = <<hook.hotkeys>>
  /\ ~hook.mounted => hook.listeners = <<>> /\ hook.called = <<>>
  /\ Len(hook.called) <= 1
  /\ \A k \in DOMAIN hook.called :
       /\ hook.called[k].hotkeys = hook.hotkeys
       /\ hook.hotkeys[hook.called[k].index].enabled
       /\ toLowerCase(hook.hotkeys[hook.called[k].index].key) = toLowerCase(hook.event.key)

C13_Witness ==
  /\ hook.unmounted /\ hook.rerendered
  /\ hook.event.key = "Escape" /\ hook.called = <<>>

\* ------------------------------------------------- the files and chat routers
FileCalls == {"files.get", "files.getDownloadUrl", "files.confirmUpload", "files.delete",
              "files.rename", "chat.create", "sync"}
ChatCalls == {"chat.get", "chat.delete", "chat.rename", "ask", "stream"}
Target(p) == IF proc[p].kind \in FileCalls THEN proc[p].fileId ELSE proc[p].chatId
\* the request runs for a user, on an id of a row that another user owns
Foreign(p) ==
  /\ proc[p].kind \in FileCalls \cup ChatCalls /\ proc[p].ran
  /\ \/ proc[p].kind \in FileCalls /\ Target(p) \in DOMAIN InitFile
        /\ InitFile[Target(p)].userId # proc[p].userId
     \/ proc[p].kind \in ChatCalls /\ Target(p) \in DOMAIN InitChat
        /\ InitChat[Target(p)].userId # proc[p].userId
\* the request runs for a user, on an id that no row has
Missing(p) ==
  /\ proc[p].kind \in FileCalls \cup ChatCalls /\ proc[p].ran
  /\ Target(p) \in {"f404", "c404"}
\* the await at which the operation looks its row up
Lookup(kind) ==
  CASE kind \in {"ask", "stream"} -> "chatLookup"
    [] kind = "sync" -> "fileLookup"
    [] kind \in {"files.rename", "chat.rename"} -> "update"
    [] kind = "chat.delete" -> "delete"
    [] OTHER -> "select"
NotFoundMessage(kind) == IF kind \in FileCalls THEN "File not found" ELSE "Chat not found"
AnsweredNotFound(p) ==
  IF proc[p].kind = "stream"
    THEN sse[p] = <<ErrorEvent("Chat not found")>> /\ steps[p] = <<>>
    ELSE proc[p].result = "NOT_FOUND" /\ proc[p].message = NotFoundMessage(proc[p].kind)
Faulted(p) == proc[p].caught # "" \/ proc[p].result = "INTERNAL_SERVER_ERROR"
NoAccess(p) == proc[p].pc = "idle" \/ ~proc[p].ran \/ Foreign(p) \/ Missing(p)

\* C14: a request on an id that exists but belongs to another user goes no
\* further than its lookup, reads nothing of the row and is answered "File not
\* found" or "Chat not found", as a request on a missing id is; and while only
\* such requests have been made, no row has been written and no provider call
\* has been made.
C14_NoForeignAccess ==
  /\ \A p \in Procs :
       (Foreign(p) \/ Missing(p)) =>
         /\ proc[p].pc \in {Lookup(proc[p].kind), "closed"}
         /\ (proc[p].pc = "closed" /\ ~Faulted(p)) => AnsweredNotFound(p)
         /\ proc[p].output = IdleProc.output
         /\ proc[p].chatRecord = IdleProc.chatRecord
         /\ proc[p].fileRecord = IdleProc.fileRecord
         /\ ~proc[p].storageError
  /\ (\A p \in Procs : NoAccess(p)) =>
       /\ chat = InitChat /\ file = InitFile /\ chatMessage = <<>>
       /\ thread = [t \in {"t1"} |-> <<>>]
       /\ uploads = <<>> /\ runs = {} /\ cachedAssistantId = 0

C14_Witness ==
  \E p, q \in Procs :
    /\ Foreign(p) /\ Missing(q)
    /\ proc[p].kind = "chat.rename" /\ proc[q].kind = "chat.rename"
    /\ proc[p].pc = "closed" /\ proc[q].pc = "closed"
    /\ AnsweredNotFound(p) /\ AnsweredNotFound(q)

\* ---------------------------------------------------------- question length
Asked == {p \in Procs : proc[p].kind \in {"ask", "stream"} /\ proc[p].ran}

\* C15: every question accepted through chat.askQuestion or through POST
\* /api/chat/stream is 1 to 2000 characters long, and so is the content of every
\* persisted user message.
C15_QuestionLength ==
  /\ \A p \in Asked : Len(proc[p].question) \in 1..QuestionMax
  /\ \A i \in DOMAIN chatMessage :
       chatMessage[i].role = "user" => Len(chatMessage[i].content) \in 1..QuestionMax

\* ------------------------------------------------- a stream that ends in error
InSteps(p, name) == \E i \in DOMAIN steps[p] : steps[p][i] = name
EndedInError(p) ==
  /\ proc[p].pc = "closed" /\ sse[p] # <<>> /\ sse[p][Len(sse[p])].type = "error"
  /\ proc[p].userMessageId # 0

\* C16: when a streamQuestion call has ended with an error event after it
\* inserted its user message, that message is still in the table with the
\* question, a title this call wrote is still set (to this call's title when
\* no other call wrote one), the call has inserted no assistant message, and
\* the message it posted to the provider thread is still on the thread.
C16_ErrorKeepsEffects ==
  /\ \A p \in Streams :
       EndedInError(p) =>
         /\ Persisted(proc[p].userMessageId, "user")
         /\ Row(proc[p].userMessageId).chatId = proc[p].chatId
         /\ Row(proc[p].userMessageId).content = proc[p].question
         /\ InSteps(p, "updateTitle") =>
              /\ chat[proc[p].chatId].title # <<>>
              /\ titleWrites[proc[p].chatId] = {p} =>
                   chat[proc[p].chatId].title = StreamTitle(proc[p].question)
         /\ proc[p].assistantMessageId = 0 /\ ~InSteps(p, "insertAssistant")
         /\ InSteps(p, "messagesCreate") =>
              \E i \in DOMAIN thread[proc[p].chatRecord.openaiThreadId] :
                LET m == thread[proc[p].chatRecord.openaiThreadId][i]
                IN m.role = "user" /\ m.content = proc[p].question
  /\ Cardinality(AssistantRows) = Cardinality({p \in Procs : proc[p].assistantMessageId # 0})

C16_Witness ==
  \E p \in Streams :
    /\ EndedInError(p) /\ sse[p][Len(sse[p])] = ErrorEvent("Assistant run failed")
    /\ InSteps(p, "updateTitle") /\ InSteps(p, "messagesCreate")
    /\ HasEvent(p, "delta")

\* ------------------------------------------------------------ the chat page
PageIdle ==
  ~client.isStreaming /\ client.pendingMessage = <<>> /\ client.streamingContent = <<>>
Settled == \A p \in DOMAIN client.call : client.call[p].state \in {"idle", "returned"}
\* the request has been made and has neither been answered by a terminal event
\* or the end of the response, nor been cancelled
InFlight(p) ==
  client.call[p].state \in {"fetching", "reading"} /\ ~client.call[p].receivedDone

\* C17: every streamQuestion callback the page starts returns, a page that is
\* streaming becomes idle again (isStreaming false, pendingMessage null,
\* streamingContent empty), and the page is idle whenever all its callbacks
\* have returned, however their responses ended.
C17_ReturnsToIdle ==
  /\ [](Settled => PageIdle)
  /\ client.isStreaming ~> PageIdle
  /\ \A p \in 1..LiveStreams :
       (client.call[p].state = "fetching") ~> (client.call[p].state = "returned")

C17_Witness ==
  \E p \in PageProcs :
    /\ Settled /\ PageIdle
    /\ client.call[p].state = "returned" /\ client.call[p].accumulatedContent # <<>>
    /\ ~client.call[p].receivedDone
    /\ proc[p].status = 200 /\ proc[p].pc = "closed"
    /\ client.call[p].handled = sse[p] /\ ~IsTerminal(sse[p][Len(sse[p])])
    /\ client.invalidated

\* C18: at most one stream request of the page is in flight.
C18_OneStreamInFlight ==
  Cardinality({p \in DOMAIN client.call : InFlight(p)}) <= 1

\* ------------------------------------------------------- files of the routers
\* the request ran to its end for the owner of file f1, and no await of the
\* database rejected
OwnerCall(p, kind) ==
  /\ proc[p].kind = kind /\ proc[p].ran /\ proc[p].pc = "closed"
  /\ proc[p].fileId = "f1" /\ proc[p].userId = InitFile["f1"].userId
DbFaulted(p) == proc[p].result = "INTERNAL_SERVER_ERROR" /\ ~proc[p].storageError
\* no other request writes the file table or the bucket
FileWriters == {"files.confirmUpload", "files.delete", "files.rename"}
Alone(p) == \A q \in Procs \ {p} : proc[q].kind \notin FileWriters
UploadNotCompleted(p) ==
  /\ proc[p].result = "BAD_REQUEST"
  /\ proc[p].message = "Upload not completed or file not found in storage"
\* files.get of f1 looks the record up and answers
GetAnswers(q) ==
  /\ proc[q].kind = "files.get" /\ proc[q].fileId = "f1"
  /\ proc[q].pc = "select" /\ proc'[q].pc = "closed"
  /\ proc'[q].result # "INTERNAL_SERVER_ERROR"
NoRowOfFile(f) ==
  /\ f \notin DOMAIN file
  /\ \A c \in DOMAIN chat : chat[c].fileId # f
  /\ \A i \in DOMAIN chatMessage :
       chatMessage[i].chatId # "" =>
         /\ chatMessage[i].chatId \in DOMAIN chat
         /\ chat[chatMessage[i].chatId].fileId # f

\* C19: files.confirmUpload by the owner, with no failing database await: when
\* the listing failed or the bucket holds no object of the file, it throws
\* BAD_REQUEST and the record is gone, and a files.get that looks the record up
\* after that answers NOT_FOUND; when the object is found it returns success,
\* the record is there, and its name is the name passed, or the old name when
\* none was passed (no other request writing the file).
C19_ConfirmUpload ==
  /\ [](\A p \in Procs :
          (OwnerCall(p, "files.confirmUpload") /\ ~DbFaulted(p)) =>
            /\ UploadNotCompleted(p) => "f1" \notin DOMAIN file
            /\ Alone(p) =>
                 IF proc[p].storageError \/ "f1" \notin storage
                   THEN UploadNotCompleted(p)
                   ELSE /\ proc[p].result = "ok"
                        /\ "f1" \in DOMAIN file
                        /\ file["f1"].name = IF proc[p].name # "" THEN proc[p].name
                                             ELSE InitFile["f1"].name)
  /\ [][\A p, q \in Procs :
          (OwnerCall(p, "files.confirmUpload") /\ UploadNotCompleted(p) /\ GetAnswers(q)) =>
            (proc'[q].result = "NOT_FOUND" /\ proc'[q].message = "File not found")]_vars

C19_Witness ==
  \E p, q \in Procs :
    /\ OwnerCall(p, "files.confirmUpload") /\ UploadNotCompleted(p)
    /\ proc[p].storageError /\ "f1" \in storage /\ "f1" \notin DOMAIN file
    /\ OwnerCall(q, "files.get") /\ proc[q].result = "NOT_FOUND"

\* C20: files.delete by the owner, with no failing database await, leaves no
\* record of the file, no chat of it and no message of such a chat, whether or
\* not the removal from the bucket failed; it returns success (no other request
\* writing the file), and a files.get that looks the record up after that
\* answers NOT_FOUND.
C20_FilesDelete ==
  /\ [](\A p \in Procs :
          (OwnerCall(p, "files.delete") /\ ~DbFaulted(p)) =>
            /\ NoRowOfFile("f1")
            /\ Alone(p) => proc[p].result = "ok")
  /\ [][\A p, q \in Procs :
          (OwnerCall(p, "files.delete") /\ proc[p].result = "ok" /\ GetAnswers(q)) =>
            (proc'[q].result = "NOT_FOUND" /\ proc'[q].message = "File not found")]_vars

C20_Witness ==
  \E p \in Procs :
    /\ OwnerCall(p, "files.delete") /\ proc[p].result = "ok" /\ proc[p].storageError
    /\ "f1" \in storage /\ NoRowOfFile("f1")
    /\ \E i \in DOMAIN chatMessage : chatMessage[i].chatId = ""

\* ------------------------------------------- the polling and streaming paths
\* Request p asked its question about chat c1 through chat.askQuestion or
\* through the stream route, ran while no other request touched the server,
\* and answered: the procedure returned, the stream wrote its done event.
AnsweredAlone(p) ==
  /\ proc[p].kind \in {"ask", "stream"} /\ proc[p].chatId = "c1" /\ proc[p].pc = "closed"
  /\ IF proc[p].kind = "ask" THEN proc[p].result = "ok" ELSE HasEvent(p, "done")
  /\ \A q \in Procs \ {p} : proc[q].pc = "idle"
\* the answer the provider put on the thread
ProviderAnswer(t) == thread[t][Len(thread[t])].content

\* C23: a question answered through chat.askQuestion and one answered through
\* streamQuestion, each alone from the initial database, leave the same state
\* for the same question and provider answer: the title is the one either path
\* computes from the question, the table holds the question as the user message
\* and the provider's answer as the assistant message, and the thread holds
\* the question with the file attached, followed by the answer.
C23_PathsInterchangeable ==
  \A p \in Procs :
    AnsweredAlone(p) =>
      LET q == proc[p].question
          a == ProviderAnswer("t1")
      IN /\ chat["c1"].title = AskTitle(q) /\ chat["c1"].title = StreamTitle(q)
         /\ chatMessage = <<[id |-> 1, chatId |-> "c1", role |-> "user", content |-> q],
                            [id |-> 2, chatId |-> "c1", role |-> "assistant", content |-> a]>>
         /\ thread["t1"] = <<[role |-> "user", content |-> q, text |-> TRUE,
                               attachments |-> <<file["f1"].openaiFileId>>],
                             [role |-> "assistant", content |-> a, text |-> TRUE,
                               attachments |-> <<>>]>>

\* ---------------------------------------------------------------- chat.search
Searched(p) == proc[p].kind = "chat.search" /\ proc[p].result = "ok"
Found(p) == proc[p].output.chats
ReturnedChats(p) == {Found(p)[k].id : k \in DOMAIN Found(p)}
LowerText(s) == [i \in DOMAIN s |-> Lower(s[i])]
\* text holds the query somewhere, letters compared without their case and
\* every other character of the query standing for itself
Contains(text, query) ==
  \E i \in 0..(Len(text) - Len(query)) :
    LowerText(SubSeq(text, i + 1, i + Len(query))) = LowerText(query)

\* C21: every message that a search lists in a chat's matchingMessages holds
\* the query in its content, compared case-insensitively, the characters %, _
\* and \ of the query standing for themselves.
C21_MatchesContainQuery ==
  \A p \in Procs :
    Searched(p) =>
      \A k \in DOMAIN Found(p) :
        \A n \in DOMAIN Found(p)[k].matchingMessages :
          Contains(Found(p)[k].matchingMessages[n].content, proc[p].query)

\* The chats of the searched file and user that have a matching message: a
\* message that the search's condition keeps, for its content or for the
\* chat's title.
MatchingChats(p) ==
  {c \in DOMAIN chat :
     /\ chat[c].fileId = proc[p].fileId /\ chat[c].userId = proc[p].userId
     /\ \E i \in MessagesOf(c) :
          \/ Contains(chatMessage[i].content, proc[p].query)
          \/ Contains(chat[c].title, proc[p].query)}
\* the n most recently updated chats of S
MostRecent(S, n) ==
  {c \in S : Cardinality({d \in S : chat[d].updatedAt > chat[c].updatedAt}) < n}

\* C22: a search returns at most limit chats, each with at most five messages;
\* it returns every chat of the file and user that has a matching message when
\* these are at most limit, and else the limit most recently updated of them.
C22_SearchLimits ==
  \A p \in Procs :
    Searched(p) =>
      /\ Len(Found(p)) <= proc[p].limit
      /\ \A k \in DOMAIN Found(p) : Len(Found(p)[k].matchingMessages) <= MessagesPerChat
      /\ IF Cardinality(MatchingChats(p)) <= proc[p].limit
           THEN MatchingChats(p) \subseteq ReturnedChats(p)
           ELSE ReturnedChats(p) = MostRecent(MatchingChats(p), proc[p].limit)
====
